---- MODULE Spec2Model ----
(***************************************************************************)
(* State-machine model of the scoring and windowing engine of the          *)
(* Whitegate observatory scripts: src/astro_build.py (night windows,       *)
(* per-hour quality, nightly aggregation) and src/fish_build.py (fishing   *)
(* composite, tide score, best 2-hour windows).                            *)
(*                                                                         *)
(* Units.  The fields of a record and the times are scaled integers:       *)
(*   timestamps            whole hours since an arbitrary midnight         *)
(*   angles (sun altitude) whole degrees                                   *)
(*   cloud cover, humidity whole percent                                   *)
(*   visibility            tenths of a km                                  *)
(*   temperatures          tenths of a degree C                            *)
(*   wind speed, gusts     tenths of a m/s                                 *)
(*   precipitation         hundredths of a mm                              *)
(*   pressure              tenths of a hPa                                 *)
(*   tide heights          cm                                              *)
(* What the programs compute from them is computed as they compute it, in  *)
(* binary64 floating point: a float is a record [s, m, e] of sign,         *)
(* 53-bit mantissa in four limbs of 14 bits and exponent, and every        *)
(* operation rounds to nearest, ties to even.  Values the programs round   *)
(* for display are integers again: a night score in tenths, a limiting     *)
(* factor or a fishing window score in whole points.                       *)
(* A missing value (Python None) is the sentinel None.                     *)
(***************************************************************************)
EXTENDS Integers, Sequences, FiniteSets, TLC

\* Python's None: a value outside the range of every modelled quantity.
None == -999999

\* ------------------------------------------------------------------------
\* Generic helpers
\* ------------------------------------------------------------------------
Max(a, b) == IF a >= b THEN a ELSE b
Min(a, b) == IF a <= b THEN a ELSE b
Abs(a) == IF a < 0 THEN -a ELSE a

\* ------------------------------------------------------------------------
\* Configuration of astro_build.py
\* ------------------------------------------------------------------------
\* astronomical night: sun altitude <= -18 degrees
DARK_ALT == -18

\* ------------------------------------------------------------------------
\* Bounds of the model
\* ------------------------------------------------------------------------
\* longest hourly sequence of the general (sparse, mixed) input family
MaxHours == 5
\* most hourly samples inside the window of the weather input family
MaxInner == 3
\* longest hourly sequence of the fishing input family
MaxFishHours == 3
\* most height samples of a tide series handed to score_tide
MaxTideSamples == 3

VARIABLES
    data,       \* fc.hourly.data: the hourly records as supplied
    hours,      \* build_night_windows_from_hourly: the records sorted by date
    idx,        \* position of the scan in hours (next record to process)
    in_dark,    \* scan flag: inside a qualifying run
    start_dt,   \* timestamp of the first record of the current run, or None
    prev_dt,    \* timestamp of the last timestamped record processed, or None
    end_dt,     \* raw end of the run closed last (local end_dt), or None
    wins,       \* the windows emitted so far
    widx,       \* main: position of "for w in windows"
    per_hour,   \* main: the scored hours of the window processed last
    nights_out, \* main: the nights aggregated so far
    payload,    \* astro_payload["nights"]; empty until pc = "done"
    pc,         \* position of main(): "sort", "scan", "aggregate", "done",
                \* or "raised" when an exception ended the run
    call,       \* a call of a pure function: its name, argument and result
    hourly,     \* fish_build: fc.hourly.data
    env,        \* fish_build: WT_KEY, the marine overrides, the UTC offset of TZ
    wt,         \* fish_build: the result of fetch_worldtides
    rows,       \* fish_build: the scored hours
    ridx,       \* fish_build: position of "for h in hourly"
    windows,    \* fish_build: payload["windows"]
    fpc,        \* position of build_payload(): "idle", "fetch", "heights",
                \* "rows", "done"
    conf        \* astro_build: the hourly score weights, in hundredths, and
                \* the window buffers, in hours

vars == <<data, hours, idx, in_dark, start_dt, prev_dt, end_dt, wins,
          widx, per_hour, nights_out, payload, pc, call,
          hourly, env, wt, rows, ridx, windows, fpc, conf>>

\* the module level names of the buffers, as the running program reads them
SUNSET_BUFFER_H == conf.SUNSET_BUFFER_H
SUNRISE_BUFFER_H == conf.SUNRISE_BUFFER_H

\* the variables of astro_build.main()
astroVars == <<data, hours, idx, in_dark, start_dt, prev_dt, end_dt, wins,
               widx, per_hour, nights_out, payload, pc>>

\* the variables main() does not touch
sideVars == <<call, hourly, env, wt, rows, ridx, windows, fpc, conf>>

\* the variables of fish_build.build_payload()
fishVars == <<hourly, env, wt, rows, ridx, windows, fpc>>

\* the variables of main() past the window builder
mainVars == <<widx, per_hour, nights_out, payload>>

\* ------------------------------------------------------------------------
\* Helpers of astro_build.py
\* ------------------------------------------------------------------------
\* A value float() rejects (a non-numeric string): the normalizers turn it
\* into None like a missing value.
Malformed == -999998

\* _get(obj, path): dotted attribute lookup, None when the attribute is
\* absent or is None.  A record is a function from dotted paths to values.
_get(obj, path) == IF path \in DOMAIN obj THEN obj[path] ELSE None

\* Geo.compute(...)[0].alt in degrees: the geometry sample of a record's
\* timestamp is carried by the record (field "sun_alt").
SunAlt(h) == h["sun_alt"]

\* dark = sun_alt_deg <= -18.0
IsDark(h) == SunAlt(h) <= DARK_ALT

\* ------------------------------------------------------------------------
\* sorted(hourly_section.data or [], key=lambda h: _get(h, "date"))
\* ------------------------------------------------------------------------
RECURSIVE InsertByDate(_, _)
\* stable insertion of record h into the date-sorted sequence s
InsertByDate(s, h) ==
    IF s = <<>> THEN <<h>>
    ELSE IF _get(s[Len(s)], "date") <= _get(h, "date") THEN Append(s, h)
    ELSE Append(InsertByDate(SubSeq(s, 1, Len(s) - 1), h), s[Len(s)])

RECURSIVE SortByDate(_)
SortByDate(s) ==
    IF s = <<>> THEN <<>>
    ELSE InsertByDate(SortByDate(SubSeq(s, 1, Len(s) - 1)), s[Len(s)])

\* variant: sorting the data attribute itself, which fails without records
SortRaisesNoData(s) ==
    Len(s) = 0 \/ (Len(s) >= 2 /\ \E i \in 1..Len(s) : _get(s[i], "date") = None)

\* Comparing the keys of two records raises TypeError when one key is None:
\* sorted() compares as soon as there are two records.
SortRaises(s) ==
    Len(s) >= 2 /\ \E i \in 1..Len(s) : _get(s[i], "date") = None

\* NightWindow(start, end, start.strftime(FMT_DAY)): the label is the
\* calendar day of the start.
NightWindow(start, end) == [start |-> start, end |-> end, label |-> start \div 24]

\* variant: the closing record's own timestamp as raw end
RawEndClosing(prev, dt_local) == dt_local

\* end_dt = prev_dt or dt_local
RawEnd(prev, dt_local) == IF prev # None THEN prev ELSE dt_local

\* variant: an empty buffered interval is kept
CloseRunLax(ws, s_dt, e_dt) ==
    LET start == s_dt + SUNSET_BUFFER_H
        end == e_dt - SUNRISE_BUFFER_H
    IN IF start <= end THEN Append(ws, [start |-> start, end |-> end, label |-> start \div 24]) ELSE ws

\* variant: the buffers widen the run instead of narrowing it
CloseRunWiden(ws, s_dt, e_dt) ==
    LET start == s_dt - SUNSET_BUFFER_H
        end == e_dt + SUNRISE_BUFFER_H
    IN IF start < end THEN Append(ws, [start |-> start, end |-> end, label |-> start \div 24]) ELSE ws

\* start = start_dt + timedelta(hours=SUNSET_BUFFER_H)
\* end   = end_dt   - timedelta(hours=SUNRISE_BUFFER_H)
\* if start < end: wins.append(NightWindow(...))
CloseRun(ws, s_dt, e_dt) ==
    LET start == s_dt + SUNSET_BUFFER_H
        end == e_dt - SUNRISE_BUFFER_H
    IN IF start < end THEN Append(ws, NightWindow(start, end)) ELSE ws

\* ------------------------------------------------------------------------
\* IEEE 754 binary64 arithmetic (Python's float)
\* ------------------------------------------------------------------------
\* A natural number is a sequence of limbs, least significant first, in base
\* 2^14.  A float is [s, m, e]: sign s in {-1, 0, 1}, mantissa m of four
\* limbs with 2^52 <= m < 2^53, and its value is s * m * 2^e; zero has s = 0.
LimbBase == 16384

Limb(N, i) == IF i >= 1 /\ i <= Len(N) THEN N[i] ELSE 0

RECURSIVE CarryRaw(_, _, _)
\* the limbs of the number whose raw limbs (any integers) are raw[i..], plus
\* the carry c
CarryRaw(raw, i, c) ==
    IF i > Len(raw)
    THEN IF c = 0 THEN <<>> ELSE <<c % LimbBase>> \o CarryRaw(raw, i, c \div LimbBase)
    ELSE <<(raw[i] + c) % LimbBase>> \o CarryRaw(raw, i + 1, (raw[i] + c) \div LimbBase)

RECURSIVE TopLimbFrom(_, _)
\* index of the highest non-zero limb among N[1..i], 0 when there is none
TopLimbFrom(N, i) == IF i = 0 THEN 0 ELSE IF N[i] # 0 THEN i ELSE TopLimbFrom(N, i - 1)

\* index of the highest non-zero limb, 0 for the number 0
TopLimb(N) == TopLimbFrom(N, Len(N))

\* number of bits of a limb
LimbBits(v) == CHOOSE j \in 0..14 : v < 2^j /\ (j = 0 \/ v >= 2^(j - 1))

\* number of bits of N, whose highest non-zero limb is limb t
BitLenAt(N, t) == IF t = 0 THEN 0 ELSE 14 * (t - 1) + LimbBits(N[t])

BitLen(N) == BitLenAt(N, TopLimb(N))

\* floor(N / 2^(14 a + b))
ShrBy(N, a, b) ==
    [i \in 1..(IF Len(N) > a THEN Len(N) - a ELSE 0) |->
        (Limb(N, i + a) \div 2^b) + (Limb(N, i + a + 1) % 2^b) * 2^(14 - b)]

\* floor(N / 2^k)
Shr(N, k) == ShrBy(N, k \div 14, k % 14)

\* N * 2^(14 a + b)
ShlBy(N, a, b) ==
    [i \in 1..(Len(N) + a + 1) |->
        (Limb(N, i - a) % 2^(14 - b)) * 2^b + (Limb(N, i - a - 1) \div 2^(14 - b))]

\* N * 2^k
Shl(N, k) == ShlBy(N, k \div 14, k % 14)

\* bit p of N (bit 0 is the lowest)
BitAt(N, p) == (Limb(N, p \div 14 + 1) \div 2^(p % 14)) % 2

\* some bit of N below bit p is set
LowBits(N, p) ==
    \/ \E i \in 1..(p \div 14) : Limb(N, i) # 0
    \/ Limb(N, p \div 14 + 1) % 2^(p % 14) # 0

RECURSIVE CmpFrom(_, _, _)
\* -1, 0, 1 as A <, =, > C on their limbs 1..i
CmpFrom(A, C, i) ==
    IF i = 0 THEN 0
    ELSE IF Limb(A, i) > Limb(C, i) THEN 1
    ELSE IF Limb(A, i) < Limb(C, i) THEN -1
    ELSE CmpFrom(A, C, i - 1)

\* -1, 0, 1 as A <, =, > C
BigCmp(A, C) == CmpFrom(A, C, IF Len(A) >= Len(C) THEN Len(A) ELSE Len(C))

\* the value of a number below 2^31
ToInt(N) == Limb(N, 1) + LimbBase * Limb(N, 2) + LimbBase * LimbBase * Limb(N, 3)

FZero == [s |-> 0, m |-> <<0, 0, 0, 0>>, e |-> 0]

\* the four low limbs of N
Mant(N) == <<Limb(N, 1), Limb(N, 2), Limb(N, 3), Limb(N, 4)>>

\* s * q * 2^e for a mantissa q of 53 bits, or the next float away from zero
\* when up
FRoundUp(s, q, e, up) ==
    IF ~up THEN [s |-> s, m |-> q, e |-> e]
    ELSE IF q[1] < LimbBase - 1 THEN [s |-> s, m |-> <<q[1] + 1, q[2], q[3], q[4]>>, e |-> e]
    ELSE IF q[2] < LimbBase - 1 THEN [s |-> s, m |-> <<0, q[2] + 1, q[3], q[4]>>, e |-> e]
    ELSE IF q[3] < LimbBase - 1 THEN [s |-> s, m |-> <<0, 0, q[3] + 1, q[4]>>, e |-> e]
    ELSE IF q[4] < 2047 THEN [s |-> s, m |-> <<0, 0, 0, q[4] + 1>>, e |-> e]
    ELSE [s |-> s, m |-> <<0, 0, 0, 1024>>, e |-> e + 1]

\* the float nearest to s * N * 2^e for a number N of len bits
FRoundBits(s, N, e, len) ==
    IF len = 0 \/ s = 0 THEN FZero
    ELSE IF len <= 53 THEN [s |-> s, m |-> Mant(Shl(N, 53 - len)), e |-> e - (53 - len)]
    ELSE FRoundUp(s, Mant(Shr(N, len - 53)), e + len - 53,
                  BitAt(N, len - 54) = 1 /\ (LowBits(N, len - 54) \/ BitAt(N, len - 53) = 1))

\* the float nearest to s * N * 2^e, ties to the even mantissa
FRound(s, N, e) == FRoundBits(s, N, e, BitLen(N))

\* the limbs of an integer 0 <= a < 2^42
IntLimbs(a) == <<a % LimbBase, (a \div LimbBase) % LimbBase, a \div (LimbBase * LimbBase)>>

\* float(n) for an integer n
FInt(n) == FRound(IF n < 0 THEN -1 ELSE IF n = 0 THEN 0 ELSE 1, IntLimbs(IF n < 0 THEN -n ELSE n), 0)

FNeg(x) == [x EXCEPT !.s = -x.s]

\* x * y
FMul(x, y) ==
    IF x.s = 0 \/ y.s = 0 THEN FZero
    ELSE FRound(x.s * y.s,
                CarryRaw([k \in 1..7 |->
                            (IF k <= 4 THEN x.m[1] * y.m[k] ELSE 0)
                          + (IF k >= 2 /\ k <= 5 THEN x.m[2] * y.m[k - 1] ELSE 0)
                          + (IF k >= 3 /\ k <= 6 THEN x.m[3] * y.m[k - 2] ELSE 0)
                          + (IF k >= 4 THEN x.m[4] * y.m[k - 3] ELSE 0)], 1, 0),
                x.e + y.e)

\* s * (A - C) * 2^e when sub, s * (A + C) * 2^e otherwise, rounded; A >= C
FAddLimbs(s, A, C, e, sub) ==
    FRound(s, CarryRaw([i \in 1..Len(A) |-> IF sub THEN A[i] - Limb(C, i) ELSE A[i] + Limb(C, i)], 1, 0), e)

\* sx * A * 2^e + sy * C * 2^e where c compares A with C: the larger magnitude
\* gives the sign and comes first
FAddAligned(sx, A, sy, C, e, c) ==
    IF sx # sy /\ c = 0 THEN FZero
    ELSE FAddLimbs(IF c >= 0 THEN sx ELSE sy, IF c >= 0 THEN A ELSE C, IF c >= 0 THEN C ELSE A,
                   e, sx # sy)

\* x + y with both mantissas brought to the exponent e0
FAddAt(x, y, e0) ==
    FAddAligned(x.s, Shl(x.m, x.e - e0), y.s, Shl(y.m, y.e - e0), e0,
                BigCmp(Shl(x.m, x.e - e0), Shl(y.m, y.e - e0)))

\* x + y
FAdd(x, y) ==
    IF x.s = 0 THEN y
    ELSE IF y.s = 0 THEN x
    ELSE IF x.e - y.e > 64 THEN x
    ELSE IF y.e - x.e > 64 THEN y
    ELSE FAddAt(x, y, IF x.e <= y.e THEN x.e ELSE y.e)

\* x - y
FSub(x, y) == FAdd(x, FNeg(y))

\* -1, 0, 1 as x <, ==, > y
FCmp(x, y) ==
    IF x.s # y.s THEN (IF x.s < y.s THEN -1 ELSE 1)
    ELSE IF x.s = 0 THEN 0
    ELSE IF x.e # y.e THEN (IF x.e > y.e THEN x.s ELSE -x.s)
    ELSE x.s * BigCmp(x.m, y.m)

FLe(x, y) == FCmp(x, y) <= 0
FLt(x, y) == FCmp(x, y) < 0
FGe(x, y) == FCmp(x, y) >= 0
FGt(x, y) == FCmp(x, y) > 0

\* max(x, y) and min(x, y) of Python: the first argument unless the second
\* is greater (smaller)
FMax(x, y) == IF FGt(y, x) THEN y ELSE x
FMin(x, y) == IF FLt(y, x) THEN y ELSE x

RECURSIVE DivLimbs(_, _, _, _)
\* long division of N[1..i] with incoming remainder r by the small d: the
\* quotient's limbs doubled, with the lowest bit set when the division leaves
\* a remainder
DivLimbs(N, i, r, d) ==
    IF i = 0 THEN <<>>
    ELSE Append(DivLimbs(N, i - 1, (r * LimbBase + N[i]) % d, d),
                2 * ((r * LimbBase + N[i]) \div d))

RECURSIVE DivRem(_, _, _, _)
\* the remainder of that division
DivRem(N, i, r, d) == IF i = 0 THEN r ELSE DivRem(N, i - 1, (r * LimbBase + N[i]) % d, d)

\* the float nearest to s * Q * 2^e, Q odd when sticky
FRoundSticky(s, Q, e, sticky) ==
    FRound(s, CarryRaw([i \in 1..Len(Q) |-> Q[i] + (IF i = 1 /\ sticky THEN 1 ELSE 0)], 1, 0), e)

\* s * N * 2^(e + 1) / d for a number N and an integer d in 1..16383
FDivLimbs(s, N, e, d) ==
    FRoundSticky(s, DivLimbs(N, Len(N), 0, d), e, DivRem(N, Len(N), 0, d) # 0)

\* x / d for an integer d in 1..16383
FDivInt(x, d) == IF x.s = 0 THEN FZero ELSE FDivLimbs(x.s, <<0, 0, 0, 0, 0>> \o x.m, x.e - 71, d)

RECURSIVE LowZeroLimbs(_, _)
\* number of zero limbs of the non-zero N from limb i upwards
LowZeroLimbs(N, i) == IF N[i] # 0 THEN 0 ELSE 1 + LowZeroLimbs(N, i + 1)

\* number of trailing zero bits of a non-zero limb
LimbZeros(v) == CHOOSE j \in 0..13 : v % 2^(j + 1) # 0 /\ v % 2^j = 0

\* number of trailing zero bits of a non-zero number whose lowest non-zero
\* limb follows z zero limbs
TrailingZerosAt(N, z) == 14 * z + LimbZeros(N[z + 1])

TrailingZeros(N) == TrailingZerosAt(N, LowZeroLimbs(N, 1))

\* q * s * 2^k
FScale(q, s, k) == IF q.s = 0 THEN FZero ELSE [s |-> q.s * s, m |-> q.m, e |-> q.e + k]

\* x / (s * o * 2^k) for the odd o given as the limbs of o * 2^tz
FDivOdd(x, s, N, tz, k) == FScale(FDivInt(x, ToInt(Shr(N, tz))), s, -(k + tz))

\* x / y for a divisor whose mantissa is a small integer times a power of two
\* (whole numbers of moderate size and their halves, quarters, ...)
FDiv(x, y) == FDivOdd(x, y.s, y.m, TrailingZeros(y.m), y.e)

\* the float nearest to n / d: the literal or parsed decimal n/d
FRatio(n, d) ==
    IF n = 0 THEN FZero
    ELSE FDivLimbs(IF n < 0 THEN -1 ELSE 1,
                   <<0, 0, 0, 0, 0, 0, 0, 0>> \o IntLimbs(IF n < 0 THEN -n ELSE n), -113, d)

\* q, or q + 1 when the discarded part is above a half, or is a half and q odd
RoundInt(q, half, sticky) == IF half /\ (sticky \/ q % 2 = 1) THEN q + 1 ELSE q

\* round(N / 2^k) for k >= 1, ties to the even integer
RoundShr(N, k) ==
    IF k > BitLen(N) + 1 THEN 0
    ELSE RoundInt(ToInt(Shr(N, k)), BitAt(N, k - 1) = 1, LowBits(N, k - 1))

\* round(N * 2^e)
RoundScaled(N, e) == IF e >= 0 THEN ToInt(Shl(N, e)) ELSE RoundShr(N, -e)

\* round(x * p) for an integer p in 1..65536, ties of the exact binary value to
\* the even integer: int(round(x)), round(x, 1) in tenths, "%.1f" in tenths
FRoundTo(x, p) ==
    IF x.s = 0 THEN 0 ELSE x.s * RoundScaled(CarryRaw([i \in 1..4 |-> x.m[i] * p], 1, 0), x.e)

\* a missing float: None where a float is expected
FNone == [s |-> 2, m |-> <<0, 0, 0, 0>>, e |-> 0]

\* float(x) of a reading given in units of 1/d, None when float() fails
FloatOf(x, d) == IF x = None \/ x = Malformed THEN FNone ELSE FRatio(x, d)

\* ------------------------------------------------------------------------
\* Astro scoring (floats, computed as Python computes them)
\* ------------------------------------------------------------------------
\* float(x) inside try/except: None for a missing or non-numeric value.  The
\* readings of a record are whole percent, tenths of a km, tenths of a m/s,
\* hundredths of a mm and tenths of a degree.
_pct(x) == FloatOf(x, 1)
_km(x) == FloatOf(x, 10)
_ms(x) == FloatOf(x, 10)
_mm(x) == FloatOf(x, 100)
_c(x) == FloatOf(x, 10)

\* Python's "x or y" on optional floats: y when x is None or 0.0
FOr(x, y) == IF x = FNone \/ x.s = 0 THEN y ELSE x

\* round(num / den) to the nearest integer, ties to the even one: Python's
\* round() on a value num/den that is exact in binary (a score in tenths is
\* a tie only at x.5, which is exact)
RoundHalfEven(num, den) ==
    LET q == num \div den
        r == num % den
    IN IF 2 * r < den THEN q
       ELSE IF 2 * r > den THEN q + 1
       ELSE IF q % 2 = 0 THEN q ELSE q + 1

\* the float literals of the two programs: the whole numbers 1.0 .. 300.0 (an
\* int the code mixes with floats is the float of that int) and the decimal
\* literals as hundredths, 0.01 .. 2.50 (FHundredths[5] is 0.05,
\* FHundredths[250] is 2.5)
FWhole == [k \in 1..300 |-> FInt(k)] \o <<>>
FHundredths == [k \in 1..250 |-> FRatio(k, 100)] \o <<>>

\* the cloud term v of the tiers, a missing tier read as t0
CloudMix(low, mid, high, t0) ==
    FAdd(FAdd(FMul(FHundredths[60], IF low # FNone THEN low ELSE t0),
              FMul(FHundredths[30], IF mid # FNone THEN mid ELSE t0)),
         FMul(FHundredths[10], IF high # FNone THEN high ELSE t0))

\* variant: no score without cloud data is 60
clouds_score_neutral60(h) ==
    LET low == _pct(_get(h, "cloud_cover.low"))
        mid == _pct(_get(h, "cloud_cover.middle"))
        high == _pct(_get(h, "cloud_cover.high"))
        total == _pct(_get(h, "cloud_cover.total"))
    IN IF low # FNone \/ mid # FNone \/ high # FNone
       THEN FMax(FZero, FSub(FWhole[100], CloudMix(low, mid, high, FOr(total, FZero))))
       ELSE IF total # FNone THEN FMax(FZero, FSub(FWhole[100], total))
       ELSE FWhole[60]

\* variant: a missing tier counts as clear sky whatever the total
clouds_score_tier0(h) ==
    LET low == _pct(_get(h, "cloud_cover.low"))
        mid == _pct(_get(h, "cloud_cover.middle"))
        high == _pct(_get(h, "cloud_cover.high"))
        total == _pct(_get(h, "cloud_cover.total"))
    IN IF low # FNone \/ mid # FNone \/ high # FNone
       THEN FMax(FZero, FSub(FWhole[100], CloudMix(low, mid, high, FZero)))
       ELSE IF total # FNone THEN FMax(FZero, FSub(FWhole[100], total))
       ELSE FWhole[50]

\* clouds_score(h)[0]
clouds_score(h) ==
    LET low == _pct(_get(h, "cloud_cover.low"))
        mid == _pct(_get(h, "cloud_cover.middle"))
        high == _pct(_get(h, "cloud_cover.high"))
        total == _pct(_get(h, "cloud_cover.total"))
    IN IF low # FNone \/ mid # FNone \/ high # FNone
       THEN FMax(FZero, FSub(FWhole[100], CloudMix(low, mid, high, FOr(total, FZero))))
       ELSE IF total # FNone THEN FMax(FZero, FSub(FWhole[100], total))
       ELSE FWhole[50]

\* visibility_score(h)[0]: (vis - lo) / (hi - lo) * 100.0, clamped
visibility_score(h) ==
    LET vis == _km(_get(h, "visibility"))
    IN IF vis = FNone THEN FWhole[60]
       ELSE FMax(FZero, FMin(FWhole[100], FMul(FDiv(FSub(vis, FWhole[5]), FSub(FWhole[25], FWhole[5])), FWhole[100])))

\* dewspread_score(h): the score and the raw spread
dewspread_score(h) ==
    LET t == _c(_get(h, "temperature"))
        dp == FOr(_c(_get(h, "dew_point")), _c(_get(h, "dewpoint")))
        spread == FSub(t, dp)
    IN IF t = FNone \/ dp = FNone THEN [s |-> FWhole[60], spread |-> FNone]
       ELSE [s |-> FMax(FZero, FMin(FWhole[100], FMul(FDiv(FSub(spread, FZero), FSub(FWhole[8], FZero)), FWhole[100]))),
             spread |-> spread]

\* wind_score(h)[0]
wind_score(h) ==
    LET ws == _ms(_get(h, "wind.speed"))
        gust == _ms(_get(h, "wind.gusts"))
        s == IF FLe(ws, FWhole[2]) THEN FWhole[100]
             ELSE IF FLe(ws, FWhole[5]) THEN FWhole[75]
             ELSE IF FLe(ws, FWhole[8]) THEN FWhole[45]
             ELSE IF FLe(ws, FWhole[12]) THEN FWhole[25]
             ELSE FWhole[10]
    IN IF ws = FNone THEN FWhole[60]
       ELSE FMax(FZero, IF gust # FNone /\ FGt(gust, FWhole[8]) THEN FSub(s, FWhole[10]) ELSE s)

\* precip_score(h)[0]
precip_score(h) ==
    LET p == _mm(_get(h, "precipitation.total"))
    IN IF p = FNone THEN FWhole[85]
       ELSE IF p.s = 0 THEN FWhole[100]
       ELSE IF FLe(p, FHundredths[5]) THEN FWhole[80]
       ELSE IF FLe(p, FHundredths[20]) THEN FWhole[50]
       ELSE FWhole[10]

\* variant: the three risks added up without the cap at 1
fog_probability_uncapped(spread_C, wind_ms, vis_km) ==
    (IF spread_C = FNone THEN 0
     ELSE IF FLe(spread_C, FWhole[1]) THEN 60 ELSE IF FLe(spread_C, FWhole[3]) THEN 35
     ELSE IF FLe(spread_C, FWhole[5]) THEN 15 ELSE 0)
    + (IF wind_ms = FNone THEN 0
       ELSE IF FLe(wind_ms, FHundredths[150]) THEN 25 ELSE IF FLe(wind_ms, FWhole[3]) THEN 10 ELSE 0)
    + (IF vis_km = FNone THEN 0
       ELSE IF FLt(vis_km, FWhole[5]) THEN 25 ELSE IF FLt(vis_km, FWhole[10]) THEN 10 ELSE 0)

\* fog_probability(spread_C, wind_ms, vis_km): whole percent.  The risk is a
\* sum of at most three of the literals 0.6, 0.35, 0.15, 0.25, 0.10; a hundred
\* times its minimum with 1.0 is within 1e-12 of a whole number, so
\* int(round(...)) is that number: the sum of the tiers in percent, capped.
fog_probability(spread_C, wind_ms, vis_km) ==
    LET d == IF spread_C = FNone THEN 0
             ELSE IF FLe(spread_C, FWhole[1]) THEN 60
             ELSE IF FLe(spread_C, FWhole[3]) THEN 35
             ELSE IF FLe(spread_C, FWhole[5]) THEN 15
             ELSE 0
        w == IF wind_ms = FNone THEN 0
             ELSE IF FLe(wind_ms, FHundredths[150]) THEN 25
             ELSE IF FLe(wind_ms, FWhole[3]) THEN 10
             ELSE 0
        v == IF vis_km = FNone THEN 0
             ELSE IF FLt(vis_km, FWhole[5]) THEN 25
             ELSE IF FLt(vis_km, FWhole[10]) THEN 10
             ELSE 0
    IN Min(100, d + w + v)

\* baseline sky darkness, 20.8 mag/arcsec^2
BASELINE_SQM == FRatio(208, 10)

\* knots = [(17.5,10),(18.5,35),(19.5,60),(20.5,85),(21.5,100)]
knots ==
    <<[x |-> FRatio(175, 10), y |-> FWhole[10]], [x |-> FRatio(185, 10), y |-> FWhole[35]],
      [x |-> FRatio(195, 10), y |-> FWhole[60]], [x |-> FRatio(205, 10), y |-> FWhole[85]],
      [x |-> FRatio(215, 10), y |-> FWhole[100]]>>

\* t = (xv - x0) / (x1 - x0); y0 + t * (y1 - y0) between the knots k0 and k1
Lerp(xv, k0, k1) == FAdd(k0.y, FMul(FDiv(FSub(xv, k0.x), FSub(k1.x, k0.x)), FSub(k1.y, k0.y)))

RECURSIVE InterpFrom(_, _, _)
\* for (x0,y0),(x1,y1) in zip(knots, knots[1:]), from the pair j on: the first
\* pair with x0 <= xv <= x1 gives the value, and 60 when there is none
InterpFrom(xv, ks, j) ==
    IF j >= Len(ks) THEN FInt(60)
    ELSE IF FLe(ks[j].x, xv) /\ FLe(xv, ks[j + 1].x) THEN Lerp(xv, ks[j], ks[j + 1])
    ELSE InterpFrom(xv, ks, j + 1)

\* interp(xv) over the knots ks
InterpOver(xv, ks) ==
    IF FLe(xv, ks[1].x) THEN ks[1].y
    ELSE IF FGe(xv, ks[Len(ks)].x) THEN ks[Len(ks)].y
    ELSE InterpFrom(xv, ks, 1)

\* float(interp(est_sqm)): piecewise linear through the knots
interp(xv) == InterpOver(xv, knots)

\* est_sqm of brightness_model: moon_term is f * alt * sep_term / X^0.7 in
\* hundredths, the product the lunar geometry gives (it is >= 0); delta_mag
\* is 2.5 times its minimum with 1.0
est_sqm(moon_alt_deg, moon_term) ==
    IF moon_alt_deg <= 0 THEN BASELINE_SQM
    ELSE FMax(FInt(17), FMin(FInt(22),
              FSub(BASELINE_SQM, FMul(FRatio(25, 10), FMin(FInt(1), FRatio(moon_term, 100))))))

\* score = float(interp(est_sqm)); return est_sqm, score
SqmScore(sqm) == [sqm |-> sqm, score |-> interp(sqm)]

\* brightness_model(moon_phase_frac, moon_alt_deg, sep_deg, X)
brightness_model(moon_alt_deg, moon_term) == SqmScore(est_sqm(moon_alt_deg, moon_term))

\* the configuration as the module sets it: the hourly score weights and the
\* two window buffers in hours
SourceWeights ==
    [W_CLOUDS |-> FRatio(40, 100), W_VIS |-> FRatio(10, 100),
     W_DEWSPREAD |-> FRatio(15, 100), W_WIND |-> FRatio(10, 100),
     W_PRECIP |-> FRatio(5, 100), W_BRIGHT |-> FRatio(20, 100),
     SUNSET_BUFFER_H |-> 1, SUNRISE_BUFFER_H |-> 1]

\* the module level names of the weights, as the running program reads them
W_CLOUDS == conf.W_CLOUDS
W_VIS == conf.W_VIS
W_DEWSPREAD == conf.W_DEWSPREAD
W_WIND == conf.W_WIND
W_PRECIP == conf.W_PRECIP
W_BRIGHT == conf.W_BRIGHT

\* score = W_CLOUDS*s_clouds + ... + W_BRIGHT*s_bright and comps, from the
\* sub-scores, the fog percentage and the brightness pair.  No target is
\* configured, so the airmass X is 1.0.
Composite(s_clouds, s_vis, s_dew, s_wind, s_precip, fogp, br) ==
    [score |-> FAdd(FAdd(FAdd(FAdd(FAdd(FMul(W_CLOUDS, s_clouds), FMul(W_VIS, s_vis)),
                                   FMul(W_DEWSPREAD, s_dew)),
                              FMul(W_WIND, s_wind)),
                         FMul(W_PRECIP, s_precip)),
                    FMul(W_BRIGHT, br.score)),
     comps |-> [clouds |-> s_clouds, visibility |-> s_vis, dewspread |-> s_dew,
                wind |-> s_wind, precip |-> s_precip, brightness |-> br.score,
                _fogp |-> fogp, _airmass |-> FInt(1), _sqm |-> br.sqm]]

\* the rest of hour_quality once dewspread_score has returned dew
QualityWithDew(h, dew) ==
    Composite(clouds_score(h), visibility_score(h), dew.s, wind_score(h), precip_score(h),
              fog_probability(dew.spread, _ms(_get(h, "wind.speed")), _km(_get(h, "visibility"))),
              brightness_model(h["moon_alt"], h["moon_term"]))

\* hour_quality(h, geo, None): the composite and the components
hour_quality(h) == QualityWithDew(h, dewspread_score(h))

\* the class of a fishing window from the mean s of its two hourly scores:
\* "GOOD" if s>=75 else "FAIR" if s>=60 else "POOR"
fish_cls(s) == IF FGe(s, FWhole[75]) THEN "GOOD" ELSE IF FGe(s, FWhole[60]) THEN "FAIR" ELSE "POOR"

\* variant: the top class needs more than 75
classify_strict(score) ==
    IF score > 750 THEN "GREAT" ELSE IF score >= 600 THEN "OK" ELSE "POOR"

\* classify(score), score in tenths of a point
classify(score) ==
    IF score >= 750 THEN "GREAT" ELSE IF score >= 600 THEN "OK" ELSE "POOR"

\* ------------------------------------------------------------------------
\* Nightly aggregation of main()
\* ------------------------------------------------------------------------
\* variant: the bounds reach one hour beyond the window on either side
HoursInLoose(w, hs) ==
    SelectSeq(hs, LAMBDA h :
        /\ _get(h, "date") # None
        /\ w.start - 1 <= _get(h, "date")
        /\ _get(h, "date") <= w.end + 1)

\* hrs = [h for h in hourly if _get(h,"date") and w.start <= date <= w.end]
HoursIn(w, hs) ==
    SelectSeq(hs, LAMBDA h :
        /\ _get(h, "date") # None
        /\ w.start <= _get(h, "date")
        /\ _get(h, "date") <= w.end)

\* the tuple (h, s, comps, notes) of per_hour for the record h scored as q
PerHour(h, q) == [date |-> _get(h, "date"), score |-> q.score, comps |-> q.comps]

\* per_hour.append((h, s, comps, notes)) for h in hrs
ScoreHours(hrs) == [i \in 1..Len(hrs) |-> PerHour(hrs[i], hour_quality(hrs[i]))]

RECURSIVE SumSeq(_)
\* sum of a sequence of integers
SumSeq(xs) == IF xs = <<>> THEN 0 ELSE SumSeq(SubSeq(xs, 1, Len(xs) - 1)) + xs[Len(xs)]

\* the exact sum of the floats xs as sign, magnitude and exponent: the
\* Fraction statistics._sum returns
ExactSum(xs) ==
    LET nzs == { i \in 1..Len(xs) : xs[i].s # 0 }
        lo == CHOOSE i \in nzs : \A j \in nzs : xs[i].e <= xs[j].e
        hi == CHOOSE i \in nzs : \A j \in nzs : xs[i].e >= xs[j].e
        n == 5 + (xs[hi].e - xs[lo].e) \div 14
        sh == [i \in 1..Len(xs) |->
                 IF xs[i].s = 0 THEN <<>> ELSE Shl(xs[i].m, xs[i].e - xs[lo].e)]
        P == CarryRaw([l \in 1..n |->
                 SumSeq([i \in 1..Len(xs) |-> IF xs[i].s = 1 THEN Limb(sh[i], l) ELSE 0])], 1, 0)
        Q == CarryRaw([l \in 1..n |->
                 SumSeq([i \in 1..Len(xs) |-> IF xs[i].s = -1 THEN Limb(sh[i], l) ELSE 0])], 1, 0)
        c == BigCmp(P, Q)
        w == IF Len(P) >= Len(Q) THEN Len(P) ELSE Len(Q)
    IN IF nzs = {} \/ c = 0 THEN [s |-> 0, N |-> <<>>, e |-> 0]
       ELSE IF c = 1
       THEN [s |-> 1, N |-> CarryRaw([l \in 1..w |-> Limb(P, l) - Limb(Q, l)], 1, 0), e |-> xs[lo].e]
       ELSE [s |-> -1, N |-> CarryRaw([l \in 1..w |-> Limb(Q, l) - Limb(P, l)], 1, 0), e |-> xs[lo].e]

\* the exact sum t over the count n, rounded once
FMeanOf(t, n) == IF t.s = 0 THEN FZero ELSE FDivLimbs(t.s, <<0, 0, 0, 0, 0>> \o t.N, t.e - 71, n)

\* statistics.mean(xs) of floats: the exact sum over the count, rounded once
FMean(xs) == FMeanOf(ExactSum(xs), Len(xs))

\* mean([x[1] for x in per_hour])
ScoreMean(ph) == FMean([i \in 1..Len(ph) |-> ph[i].score])

\* comp_avg[k] = mean([x[2][k] for x in per_hour])
CompMean(ph, k) == FMean([i \in 1..Len(ph) |-> ph[i].comps[k]])

\* comp_names, in the order of the dict comp_avg
comp_names == <<"clouds", "brightness", "dewspread", "visibility", "wind", "precip">>

\* comp_avg.items() of comp_avg = {k: mean([x[2][k] for x in per_hour]) for k
\* in comp_names}: the pairs (name, average) in the order of comp_names
comp_avg(ph) ==
    [j \in 1..Len(comp_names) |-> [k |-> comp_names[j], v |-> CompMean(ph, comp_names[j])]]

RECURSIVE InsertByAvg(_, _)
\* stable insertion of the pair kv into items sorted by ascending average
InsertByAvg(items, kv) ==
    IF items = <<>> THEN <<kv>>
    ELSE IF FLe(items[Len(items)].v, kv.v) THEN Append(items, kv)
    ELSE Append(InsertByAvg(SubSeq(items, 1, Len(items) - 1), kv), items[Len(items)])

RECURSIVE SortedByAvg(_, _)
\* sorted(comp_avg.items(), key=lambda kv: kv[1]): the first n items sorted
SortedByAvg(items, n) ==
    IF n = 0 THEN <<>> ELSE InsertByAvg(SortedByAvg(items, n - 1), items[n])

\* variant: the three highest averages
worst3_highest(ph) ==
    LET sorted == SortedByAvg(comp_avg(ph), Len(comp_names))
    IN [j \in 1..Min(3, Len(sorted)) |->
          [name |-> sorted[Len(sorted) + 1 - j].k,
           value |-> FRoundTo(sorted[Len(sorted) + 1 - j].v, 1)]]

\* worst3: the parts "name:round(avg)" of the joined string, from sorted(...)[:3]
worst3(ph) ==
    LET sorted == SortedByAvg(comp_avg(ph), Len(comp_names))
    IN [j \in 1..Min(3, Len(sorted)) |->
          [name |-> sorted[j].k, value |-> FRoundTo(sorted[j].v, 1)]]

\* variant: a later pair with an equal mean replaces the best pair
Best2hTakesLater(sc, best) == FGe(sc, best.score)

\* sc > best2h_score
Best2hBetter(sc, best) == FGt(sc, best.score)

RECURSIVE Best2hLoop(_, _, _)
\* for i in range(len(per_hour)-1), from position i on; best carries
\* best2h_score and best2h, whose average is the "%.1f" of the mean in tenths
Best2hLoop(ph, i, best) ==
    IF i > Len(ph) - 1 THEN best
    ELSE LET sc == FMean(<<ph[i].score, ph[i + 1].score>>)
         IN Best2hLoop(ph, i + 1,
                IF Best2hBetter(sc, best)
                THEN [score |-> sc,
                      best2h |-> [t0 |-> ph[i].date, t1 |-> ph[i + 1].date,
                                  avg |-> FRoundTo(sc, 10)]]
                ELSE best)

\* best2h = None: no description "t0 -> t1 (avg a)"
NoBest2h == [t0 |-> None, t1 |-> None, avg |-> None]

\* variant: a lone record is its own best two hours
Best2hOfOne(ph) ==
    IF Len(ph) = 1
    THEN [t0 |-> ph[1].date, t1 |-> ph[1].date, avg |-> FRoundTo(ph[1].score, 10)]
    ELSE Best2hLoop(ph, 1, [score |-> FInt(-1), best2h |-> NoBest2h]).best2h

\* best2h = None; best2h_score = -1; the loop; best2h
Best2h(ph) == Best2hLoop(ph, 1, [score |-> FInt(-1), best2h |-> NoBest2h]).best2h

RECURSIVE MaxSeq(_)
\* max() of a non-empty sequence of numbers
MaxSeq(xs) ==
    IF Len(xs) = 1 THEN xs[1] ELSE Max(MaxSeq(SubSeq(xs, 1, Len(xs) - 1)), xs[Len(xs)])

\* the dict appended to nights_out for window w: score = round(mean, 1) in
\* tenths, worst as its parts, sqm and airmass = round(mean, 2) in hundredths
NightOf(w, ph) ==
    LET night_score == FRoundTo(ScoreMean(ph), 10)
    IN [label |-> w.label,
        start |-> w.start,
        end |-> w.end,
        score |-> night_score,
        class |-> classify(night_score),
        worst |-> worst3(ph),
        best2h |-> Best2h(ph),
        fog_peak |-> MaxSeq([i \in 1..Len(ph) |-> ph[i].comps._fogp]),
        sqm_med |-> FRoundTo(CompMean(ph, "_sqm"), 100),
        airmass_md |-> FRoundTo(CompMean(ph, "_airmass"), 100)]

RECURSIVE InsertByScore(_, _)
InsertByScore(s, n) ==
    IF s = <<>> THEN <<n>>
    ELSE IF s[Len(s)].score >= n.score THEN Append(s, n)
    ELSE Append(InsertByScore(SubSeq(s, 1, Len(s) - 1), n), s[Len(s)])

RECURSIVE SortByScore(_)
\* variant: the nights by descending score
SortByScore(s) ==
    IF s = <<>> THEN <<>>
    ELSE InsertByScore(SortByScore(SubSeq(s, 1, Len(s) - 1)), s[Len(s)])

RECURSIVE InsertByStart(_, _)
InsertByStart(s, n) ==
    IF s = <<>> THEN <<n>>
    ELSE IF s[Len(s)].start <= n.start THEN Append(s, n)
    ELSE Append(InsertByStart(SubSeq(s, 1, Len(s) - 1), n), s[Len(s)])

RECURSIVE SortByStart(_)
\* sorted(nights_out, key=lambda x: x["start"])
SortByStart(s) ==
    IF s = <<>> THEN <<>>
    ELSE InsertByStart(SortByStart(SubSeq(s, 1, Len(s) - 1)), s[Len(s)])

\* ------------------------------------------------------------------------
\* Fishing scoring of fish_build.py (floats; the readings of a record are
\* tenths of a m/s, whole percent, hundredths of a mm, tenths of a hPa; the
\* overrides are tenths of a m, seconds and tenths of a degree; tide heights
\* are cm).  A score the code returns as an int is the float of that int:
\* the weighted sum makes it one.
\* ------------------------------------------------------------------------
\* a reading the forecast or the environment gives in units of 1/d, as the
\* float it is, None when it is absent
Reading(x, d) == IF x = None THEN FNone ELSE FRatio(x, d)


\* abs(x)
FAbs(x) == IF x.s = -1 THEN FNeg(x) ELSE x

\* score_wind(ws, gust)[0]
score_wind(ws, gust) ==
    LET base == IF FLe(ws, FWhole[2]) THEN 100
                ELSE IF FLe(ws, FWhole[4]) THEN 90
                ELSE IF FLe(ws, FWhole[6]) THEN 75
                ELSE IF FLe(ws, FWhole[8]) THEN 55
                ELSE IF FLe(ws, FWhole[12]) THEN 35
                ELSE 15
    IN IF ws = FNone THEN FWhole[60]
       ELSE FInt(Max(0, IF gust # FNone /\ FGt(gust, FWhole[10]) THEN base - 10 ELSE base))

\* score_cloud(total)[0]: max(0, 100 - abs(t - 50.0) * 1.2)
score_cloud(total) ==
    IF total = FNone THEN FWhole[60]
    ELSE FMax(FZero, FSub(FWhole[100], FMul(FAbs(FSub(total, FWhole[50])), FHundredths[120])))

\* score_precip(mm)[0]
score_precip(mm) ==
    IF mm = FNone THEN FWhole[80]
    ELSE IF mm.s = 0 THEN FWhole[100]
    ELSE IF FLe(mm, FHundredths[20]) THEN FWhole[70]
    ELSE FWhole[30]

\* score_pressure_trend(p_now, p_prev3h)[0]
score_pressure_trend(p_now, p_prev3h) ==
    LET dp == FSub(p_now, p_prev3h)
    IN IF p_now = FNone \/ p_prev3h = FNone THEN FWhole[60]
       ELSE IF FLe(FNeg(FWhole[2]), dp) /\ FLe(dp, FWhole[2]) THEN FWhole[85]
       ELSE IF FLe(FNeg(FWhole[4]), dp) /\ FLe(dp, FWhole[4]) THEN FWhole[70]
       ELSE FWhole[45]

\* score_humidity(h)[0]
score_humidity(h) ==
    IF h = FNone THEN FWhole[70]
    ELSE IF FLe(FWhole[40], h) /\ FLe(h, FWhole[85]) THEN FWhole[85]
    ELSE IF FLe(FWhole[30], h) /\ FLe(h, FWhole[90]) THEN FWhole[70]
    ELSE FWhole[55]

\* score_wave(height_m, period_s, ws)[0]
score_wave(height_m, period_s, ws) ==
    LET h == IF height_m # FNone THEN height_m ELSE FHundredths[80]
        t == IF period_s # FNone THEN period_s ELSE FWhole[7]
        s_h == IF FLe(h, FHundredths[50]) THEN 100 ELSE IF FLe(h, FHundredths[80]) THEN 85
               ELSE IF FLe(h, FHundredths[120]) THEN 70 ELSE IF FLe(h, FHundredths[180]) THEN 45 ELSE 20
        s_t == IF FLt(t, FWhole[5]) THEN 60 ELSE IF FLe(t, FWhole[10]) THEN 85 ELSE 75
    IN IF height_m = FNone /\ period_s = FNone
       THEN IF ws = FNone THEN FWhole[70]
            ELSE IF FLe(ws, FWhole[6]) THEN FWhole[65]
            ELSE IF FLe(ws, FWhole[10]) THEN FWhole[45]
            ELSE FWhole[25]
       ELSE FAdd(FMul(FHundredths[60], FInt(s_h)), FMul(FHundredths[40], FInt(s_t)))

\* score_sea_temp(tC, month)[0]
score_sea_temp(tC) ==
    IF tC = FNone THEN FWhole[70]
    ELSE IF FLe(FWhole[10], tC) /\ FLe(tC, FWhole[17]) THEN FWhole[85]
    ELSE IF FGt(tC, FWhole[17]) THEN FWhole[95]
    ELSE IF FLe(FWhole[8], tC) /\ FLt(tC, FWhole[10]) THEN FWhole[60]
    ELSE FWhole[45]

\* index of the first height sample at or after dt_utc, else the last one
TideIdx(dt_utc, hts) ==
    IF \E i \in 1..Len(hts) : hts[i].dt >= dt_utc
    THEN CHOOSE i \in 1..Len(hts) :
            /\ hts[i].dt >= dt_utc
            /\ \A j \in 1..(i - 1) : hts[j].dt < dt_utc
    ELSE Len(hts)

\* the first extreme at or after dt_utc, as a sequence of at most one
NextExtreme(dt_utc, exs) ==
    LET later == SelectSeq(exs, LAMBDA ex : ex.dt >= dt_utc)
    IN IF later = <<>> THEN <<>> ELSE <<later[1]>>

\* the samples h0, h1 around dt_utc: their heights in cm, the difference dh
\* of the two and the time difference dt_h in hours ("or 1.0" when it is 0)
TideBracket(dt_utc, hts) ==
    LET idx0 == TideIdx(dt_utc, hts)
        i0 == Max(1, idx0 - 1)
        i1 == Min(Len(hts), idx0 + 1)
        dt_raw == hts[i1].dt - hts[i0].dt
    IN [h0 |-> hts[i0].height, h1 |-> hts[i1].height,
        dh |-> hts[i1].height - hts[i0].height,
        dt_h |-> IF dt_raw = 0 THEN 1 ELSE dt_raw]

\* rate = (h1["height"] - h0["height"]) / dt_h, in m/h
TideRate(dt_utc, hts) ==
    LET b == TideBracket(dt_utc, hts)
    IN FDiv(FSub(FRatio(b.h1, 100), FRatio(b.h0, 100)), FInt(b.dt_h))

\* phase = "flood" if rate>0.03 else "ebb" if rate<-0.03 else "slack"
tide_phase(dt_utc, hts) ==
    LET rate == TideRate(dt_utc, hts)
    IN IF FGt(rate, FHundredths[3]) THEN "flood"
       ELSE IF FLt(rate, FNeg(FHundredths[3])) THEN "ebb"
       ELSE "slack"

\* timing_bonus: +6 for a next High within 2 h, +10 for any other next
\* extreme within 2 h
TimingBonus(dt_utc, exs) ==
    LET next_ext == NextExtreme(dt_utc, exs)
    IN IF next_ext = <<>> THEN FZero
       ELSE IF Abs(next_ext[1].dt - dt_utc) <= 2
            THEN IF next_ext[1].type = "High" THEN FWhole[6] ELSE FWhole[10]
            ELSE FZero

\* score_tide(dt_utc, heights, extremes)[0]
score_tide(dt_utc, hts, exs) ==
    IF hts = <<>> THEN FWhole[60]
    ELSE
    LET rate == TideRate(dt_utc, hts)
        phase == tide_phase(dt_utc, hts)
        s_move == FMin(FWhole[100], FAdd(FWhole[40], FMin(FWhole[60], FMul(FAbs(rate), FWhole[300]))))
        s_phase == IF FGt(rate, FHundredths[3]) THEN FWhole[5] ELSE FZero
        s_slack_pen == IF phase = "slack" THEN FNeg(FWhole[15]) ELSE FZero
        timing_bonus == TimingBonus(dt_utc, exs)
    IN FMax(FZero, FMin(FWhole[100], FAdd(FAdd(FAdd(s_move, s_phase), s_slack_pen), timing_bonus)))

\* s_tide = score_tide(dt_utc, heights, extremes) if WT_KEY else 60.0
TideSubScore(key, dt_utc, hts, exs) ==
    IF key THEN score_tide(dt_utc, hts, exs) ELSE FWhole[60]

\* WEIGHTS
WEIGHTS ==
    [wind |-> FRatio(25, 100), clouds |-> FRatio(8, 100), precip |-> FRatio(8, 100),
     pressure |-> FRatio(8, 100), humidity |-> FRatio(5, 100), wave |-> FRatio(20, 100),
     seatemp |-> FRatio(6, 100), tide |-> FRatio(20, 100)]

\* dawn_dusk_bonus = 6.0 if (-12.0 < alt < +6.0) else 0.0
dawn_dusk_bonus(alt) == IF -12 < alt /\ alt < 6 THEN FWhole[6] ELSE FZero

\* by_time.get(dt_local - timedelta(hours=3)): the last record of that time
PrevRecord(hs, t) ==
    LET at == SelectSeq(hs, LAMBDA h : _get(h, "date") = t)
    IN IF at = <<>> THEN <<>> ELSE <<at[Len(at)]>>

\* to_utc(dt): the naive UTC time of a local time, off hours ahead of UTC
to_utc(dt, off) == dt - off

\* the eight sub-scores of one hourly record
FishSubScores(h, hs, cfg, tides) ==
    LET ws == Reading(_get(h, "wind.speed"), 10)
        prev == PrevRecord(hs, _get(h, "date") - 3)
        pres_prev == IF prev = <<>> THEN None ELSE _get(prev[1], "pressure")
    IN [wind |-> score_wind(ws, Reading(_get(h, "wind.gusts"), 10)),
        clouds |-> score_cloud(Reading(_get(h, "cloud_cover.total"), 1)),
        precip |-> score_precip(Reading(_get(h, "precipitation.total"), 100)),
        pressure |-> score_pressure_trend(Reading(_get(h, "pressure"), 10),
                                          Reading(pres_prev, 10)),
        humidity |-> score_humidity(Reading(_get(h, "humidity"), 1)),
        wave |-> score_wave(Reading(cfg.OVERRIDE_WAVE_H, 10),
                            Reading(cfg.OVERRIDE_WAVE_T, 1), ws),
        seatemp |-> score_sea_temp(Reading(cfg.OVERRIDE_SEA_T, 10)),
        tide |-> TideSubScore(cfg.WT_KEY, to_utc(_get(h, "date"), cfg.utc_offset),
                              tides.heights, tides.extremes)]

\* the weighted sum plus the dawn/dusk bonus, before clamping
FishRawScore(sub, alt) ==
    FAdd(FAdd(FAdd(FAdd(FAdd(FAdd(FAdd(FAdd(FMul(WEIGHTS.wind, sub.wind),
                                            FMul(WEIGHTS.clouds, sub.clouds)),
                                       FMul(WEIGHTS.precip, sub.precip)),
                                  FMul(WEIGHTS.pressure, sub.pressure)),
                             FMul(WEIGHTS.humidity, sub.humidity)),
                        FMul(WEIGHTS.wave, sub.wave)),
                   FMul(WEIGHTS.seatemp, sub.seatemp)),
              FMul(WEIGHTS.tide, sub.tide)),
         dawn_dusk_bonus(alt))

\* variant: the sum is exposed as it is
FishClampNone(x) == x

\* score = max(0.0, min(100.0, score))
FishClamp(x) == FMax(FZero, FMin(FWhole[100], x))

\* the row appended for record h
FishRow(h, hs, cfg, tides) ==
    [t |-> _get(h, "date"),
     score |-> FishClamp(FishRawScore(FishSubScores(h, hs, cfg, tides), SunAlt(h)))]

RECURSIVE InsertByDt(_, _)
InsertByDt(s, x) ==
    IF s = <<>> THEN <<x>>
    ELSE IF s[Len(s)].dt <= x.dt THEN Append(s, x)
    ELSE Append(InsertByDt(SubSeq(s, 1, Len(s) - 1), x), s[Len(s)])

RECURSIVE SortByDt(_)
\* heights.sort(key=lambda x: x["dt"]); extremes.sort(key=lambda x: x["dt"])
SortByDt(s) ==
    IF s = <<>> THEN <<>> ELSE InsertByDt(SortByDt(SubSeq(s, 1, Len(s) - 1)), s[Len(s)])

\* the entries of a provider list that carry a time ("if ts is None:
\* continue"), sorted by it
Timed(resp) == SortByDt(SelectSeq(resp, LAMBDA x : x.dt # None))

RECURSIVE InsertByT(_, _)
InsertByT(s, r) ==
    IF s = <<>> THEN <<r>>
    ELSE IF s[Len(s)].t <= r.t THEN Append(s, r)
    ELSE Append(InsertByT(SubSeq(s, 1, Len(s) - 1), r), s[Len(s)])

RECURSIVE SortByT(_)
\* sorted(hrs, key=lambda x: x["t"])
SortByT(s) ==
    IF s = <<>> THEN <<>> ELSE InsertByT(SortByT(SubSeq(s, 1, Len(s) - 1)), s[Len(s)])

RECURSIVE InsertByScoreDesc(_, _)
InsertByScoreDesc(s, b) ==
    IF s = <<>> THEN <<b>>
    ELSE IF FGe(s[Len(s)].s, b.s) THEN Append(s, b)
    ELSE Append(InsertByScoreDesc(SubSeq(s, 1, Len(s) - 1), b), s[Len(s)])

RECURSIVE SortByScoreDesc(_)
\* best.sort(key=lambda x: x[0], reverse=True): stable, highest mean first
SortByScoreDesc(s) ==
    IF s = <<>> THEN <<>>
    ELSE InsertByScoreDesc(SortByScoreDesc(SubSeq(s, 1, Len(s) - 1)), s[Len(s)])

\* a local time given in hours, in minutes
Minutes(t) == 60 * t

\* t.strftime("%H:%M") of a time in minutes
HHMM(t) == [hh |-> (t \div 60) % 24, mm |-> t % 60]

\* the candidate 2-hour windows of one day: s = mean of the two scores,
\* t0 = win[0]["t"], t1 = win[-1]["t"] + timedelta(minutes=59), in minutes
DayPairs(hrs) ==
    [i \in 1..(Len(hrs) - 1) |->
        [s |-> FMean(<<hrs[i].score, hrs[i + 1].score>>),
         t0 |-> Minutes(hrs[i].t), t1 |-> Minutes(hrs[i + 1].t) + 59]]

\* windows.append(dict(...)) for the pair b: the day of t0, the clock times
\* of t0 and t1, score = int(round(s)) and cls from s itself
WindowOf(b) ==
    [day_label |-> b.t0 \div 1440,
     start |-> HHMM(b.t0),
     end |-> HHMM(b.t1),
     score |-> FRoundTo(b.s, 1),
     cls |-> fish_cls(b.s)]

\* top = best[:3] of the sorted pairs, one window each
TopWindows(best) == [j \in 1..Min(3, Len(best)) |-> WindowOf(best[j])]

\* the windows of one day: the top three pairs of its rows
DayWindows(day, rs) ==
    TopWindows(SortByScoreDesc(DayPairs(SortByT(SelectSeq(rs, LAMBDA r : r.t \div 24 = day)))))

RECURSIVE WindowsFrom(_, _, _)
\* for day, hrs in sorted(by_day.items()): the days from day on, up to last
WindowsFrom(day, last, rs) ==
    IF day > last THEN <<>>
    ELSE DayWindows(day, rs) \o WindowsFrom(day + 1, last, rs)

\* the "windows" list of the payload
FishWindows(rs) ==
    IF rs = <<>> THEN <<>>
    ELSE LET days == { rs[i].t \div 24 : i \in 1..Len(rs) }
             first == CHOOSE d \in days : \A e \in days : d <= e
             last == CHOOSE d \in days : \A e \in days : e <= d
         IN WindowsFrom(first, last, rs)

\* the rows of the card: nights = sorted(payload["nights"], key=start), one
\* row per night with the score as int(round(score)) and "-" for no best 2 h;
\* start_local and end_local are the %H:%M strings main stored with the
\* night, here the hour of day of the window's bounds
render_html_card(nights) ==
    LET sorted == SortByStart(nights)
    IN [i \in 1..Len(sorted) |->
          [date_label |-> sorted[i].label,
           cls |-> sorted[i].class,
           start_local |-> sorted[i].start % 24,
           end_local |-> sorted[i].end % 24,
           score |-> RoundHalfEven(sorted[i].score, 10),
           best2h |-> IF sorted[i].best2h = NoBest2h THEN "-" ELSE "best",
           limits |-> sorted[i].worst]]

\* ------------------------------------------------------------------------
\* Inputs
\* ------------------------------------------------------------------------
\* hour gaps between consecutive records: regular (1) and sparse (3)
Gaps == {1, 3}
\* sun altitudes around the threshold: -18 is dark, -17 is not
Alts == {-18, -17}

\* every optional weather field absent
WxMissing == [p \in {} |-> None]

\* a record: timestamp, the geometry sample of that time (sun altitude; the
\* moon is down unless the weather profile says otherwise) and the weather
MkHour(d, alt, wx) ==
    ("date" :> d) @@ ("sun_alt" :> alt) @@ wx @@ ("moon_alt" :> -10) @@ ("moon_term" :> 0)

RECURSIVE DateOf(_, _)
\* timestamp of the i-th record of a sequence starting at hour 0 with gaps g
DateOf(g, i) == IF i <= 1 THEN 0 ELSE DateOf(g, i - 1) + g[i]

Reverse(s) == [i \in 1..Len(s) |-> s[Len(s) + 1 - i]]

\* the general family: up to MaxHours records, sparse or regular, any
\* dark/not-dark pattern, supplied in ascending or descending order
GeneralData ==
    \E n \in 0..MaxHours : \E g \in [2..n -> Gaps] : \E a \in [1..n -> Alts] :
        LET s == [i \in 1..n |-> MkHour(DateOf(g, i), a[i], WxMissing)]
        IN data \in {s, Reverse(s)}

\* a night of hourly samples: the sun is 18 degrees down exactly during
\* [20:00, 06:00)
DiurnalAlt(t) == IF t % 24 >= 20 \/ t % 24 < 6 THEN -19 ELSE -17

NightFrom == 17..20
NightTo == 29..32

NightInputs ==
    { [i \in 1..(b - a + 1) |-> MkHour(a + i - 1, DiurnalAlt(a + i - 1), WxMissing)] :
        a \in NightFrom, b \in NightTo }

\* weather profiles: composite 95.0 (clear, calm, dry, 19.2 km)
Wx95 ==
    ("cloud_cover.total" :> 0) @@ ("visibility" :> 192) @@ ("temperature" :> 100)
    @@ ("dew_point" :> 20) @@ ("wind.speed" :> 10) @@ ("precipitation.total" :> 0)
\* composite 90.0 (3 m/s wind, 14.2 km)
Wx90 ==
    ("cloud_cover.total" :> 0) @@ ("visibility" :> 142) @@ ("temperature" :> 100)
    @@ ("dew_point" :> 20) @@ ("wind.speed" :> 30) @@ ("precipitation.total" :> 0)
\* composite 50.0 (overcast)
Wx50 ==
    ("cloud_cover.total" :> 100) @@ ("visibility" :> 142) @@ ("temperature" :> 100)
    @@ ("dew_point" :> 20) @@ ("wind.speed" :> 30) @@ ("precipitation.total" :> 0)
\* composite 40.0 (overcast, 6 m/s wind, 6.2 km, spread 6.4)
Wx40 ==
    ("cloud_cover.total" :> 100) @@ ("visibility" :> 62) @@ ("temperature" :> 100)
    @@ ("dew_point" :> 36) @@ ("wind.speed" :> 60) @@ ("precipitation.total" :> 0)
\* components clouds 30, brightness 40, wind 90, precip 100, visibility 70,
\* dewspread 85 (moon up, gusty)
WxLimits ==
    ("cloud_cover.total" :> 70) @@ ("visibility" :> 190) @@ ("temperature" :> 100)
    @@ ("dew_point" :> 32) @@ ("wind.speed" :> 10) @@ ("wind.gusts" :> 90)
    @@ ("precipitation.total" :> 0) @@ ("moon_alt" :> 30) @@ ("moon_term" :> 84)
\* the same with 0.05 mm of rain (precip 80)
WxLimitsRain ==
    ("cloud_cover.total" :> 70) @@ ("visibility" :> 190) @@ ("temperature" :> 100)
    @@ ("dew_point" :> 32) @@ ("wind.speed" :> 10) @@ ("wind.gusts" :> 90)
    @@ ("precipitation.total" :> 5) @@ ("moon_alt" :> 30) @@ ("moon_term" :> 84)
\* out-of-range fields: negative cloud cover and visibility, dew point above
\* the temperature
WxOutOfRange ==
    ("cloud_cover.low" :> -200) @@ ("cloud_cover.total" :> -200) @@ ("visibility" :> -10)
    @@ ("temperature" :> 50) @@ ("dew_point" :> 80) @@ ("wind.speed" :> 10)
    @@ ("precipitation.total" :> 0)

\* two profiles whose composites are both 34.8 on paper and differ in the
\* last bit as floats (34.8 and 34.800000000000004)
WxNearA ==
    ("cloud_cover.total" :> 90) @@ ("visibility" :> 118) @@ ("temperature" :> 100)
    @@ ("dew_point" :> 100) @@ ("wind.speed" :> 60) @@ ("precipitation.total" :> 0)
WxNearB ==
    ("cloud_cover.total" :> 97) @@ ("visibility" :> 84) @@ ("temperature" :> 100)
    @@ ("dew_point" :> 92) @@ ("wind.speed" :> 10) @@ ("precipitation.total" :> 20)
\* visibility 22.9 km scores 89.49999999999999, just under the 89.50000000000001
\* of the moonless brightness; the spread 10.6 - 10.0 scores
\* 7.499999999999996
WxNearVis ==
    ("visibility" :> 229) @@ ("temperature" :> 106) @@ ("dew_point" :> 100)
\* the same visibility under a clear, calm, dry sky: visibility
\* 89.49999999999999 and brightness 89.50000000000001 are the two lowest
\* components
WxNearOrder ==
    ("cloud_cover.total" :> 0) @@ ("visibility" :> 229) @@ ("temperature" :> 100)
    @@ ("dew_point" :> 20) @@ ("wind.speed" :> 10) @@ ("precipitation.total" :> 0)

\* the profiles of whole composites, the others, and those whose floats are
\* not the decimal numbers on paper
WxWhole == {Wx40, Wx50, Wx90, Wx95}
WxOther == {WxMissing, WxLimits, WxLimitsRain, WxOutOfRange}
WxNear == {WxNearA, WxNearB, WxNearOrder, Wx50}

\* the nights of the two worked examples: composites 50, 90, 95, 40, and
\* component averages clouds 30, brightness 40, wind 90, precip 95,
\* visibility 70, dewspread 85
ExampleNights ==
    { <<Wx50, Wx90, Wx95, Wx40>>, <<WxLimits, WxLimits, WxLimitsRain, WxLimits>> }

\* a dark run of hourly samples 0 .. m+1 with the weather wx on the m samples
\* that fall inside its window [1, m]
DarkRun(wx) ==
    [i \in 1..(Len(wx) + 2) |->
        MkHour(i - 1, DARK_ALT, IF i = 1 \/ i = Len(wx) + 2 THEN WxMissing ELSE wx[i - 1])]

\* a dark run with any weather of one of the three groups on up to MaxInner
\* samples, or with the weather of a worked example
WeatherData ==
    \/ \E m \in 2..MaxInner : \E P \in {WxWhole, WxOther, WxNear} : \E wx \in [1..m -> P] :
          data = DarkRun(wx)
    \/ \E wx \in ExampleNights : data = DarkRun(wx)

\* two nights of sparse samples with a daylight sample between them: dark
\* at 0, 1, 4 and at 6, 7, 10 give the windows [1, 3] and [7, 9], each with
\* one record inside
TwoNightTimes == <<0, 1, 4, 5, 6, 7, 10>>

\* the records of the two nights, wxA inside the first and wxB inside the
\* second window, in chronological order
TwoNightRecords(wxA, wxB) ==
    [i \in 1..Len(TwoNightTimes) |->
        MkHour(TwoNightTimes[i],
               IF TwoNightTimes[i] = 5 THEN -17 ELSE DARK_ALT,
               IF TwoNightTimes[i] = 1 THEN wxA
               ELSE IF TwoNightTimes[i] = 7 THEN wxB ELSE WxMissing)]

\* the same records with the even positions first
EvensFirst(s) ==
    [i \in 1..Len(s) |->
        IF i <= Len(s) \div 2 THEN s[2 * i] ELSE s[2 * (i - Len(s) \div 2) - 1]]

\* the same records without the one inside the first window
WithoutFirstInner(s) == SelectSeq(s, LAMBDA h : _get(h, "date") # 1)

\* the weather of a lone record: the whole composites and two profiles whose
\* floats are not the decimal numbers on paper
WxLone == WxWhole \cup {WxNearVis, WxNearOrder}

\* the two nights supplied in chronological, reverse or shuffled order, or
\* with no record inside the first window
TwoNightData ==
    \E wxA \in WxLone : \E wxB \in WxLone :
        LET s == TwoNightRecords(wxA, wxB)
        IN data \in {s, Reverse(s), EvensFirst(s), WithoutFirstInner(s)}

\* records without a timestamp
UndatedInputs ==
    { <<MkHour(None, a, WxMissing)>> : a \in Alts }
    \cup { <<MkHour(None, a, WxMissing), MkHour(0, b, WxMissing)>> : a \in Alts, b \in Alts }

\* fishing weather profiles (with the sun altitude of the sample):
\* every weather sub-score at its best, sun on the horizon
FxBest ==
    ("wind.speed" :> 10) @@ ("cloud_cover.total" :> 50) @@ ("precipitation.total" :> 0)
    @@ ("pressure" :> 10130) @@ ("humidity" :> 60) @@ ("sun_alt" :> 0)
\* light rain and 5 m/s wind, sun at -12 degrees exactly
FxSun12 ==
    ("wind.speed" :> 50) @@ ("cloud_cover.total" :> 80) @@ ("precipitation.total" :> 20)
    @@ ("pressure" :> 10100) @@ ("humidity" :> 90) @@ ("sun_alt" :> -12)
\* gale, downpour, out-of-range cloud cover, sun at -11 degrees
FxWorst ==
    ("wind.speed" :> 150) @@ ("wind.gusts" :> 200) @@ ("cloud_cover.total" :> 200)
    @@ ("precipitation.total" :> 500) @@ ("pressure" :> 10080) @@ ("humidity" :> 95)
    @@ ("sun_alt" :> -11)
\* no weather field at all, sun at +6 degrees exactly
FxMissing == ("sun_alt" :> 6)

FishWx == {FxBest, FxSun12, FxWorst, FxMissing}

\* first hour of a fishing forecast: the sequences cross midnight
FishFrom == {21, 22}

\* consecutive hourly records, optionally led by a record without timestamp
FishData ==
    \E n \in 0..MaxFishHours : \E a \in FishFrom : \E wx \in [1..n -> FishWx] :
        LET s == [i \in 1..n |-> ("date" :> (a + i - 1)) @@ wx[i]]
        IN hourly \in {s} \cup (IF n = 1 THEN {<<FxMissing>> \o s} ELSE {})

\* the environment: no tide key and no overrides; a key and flat calm warm
\* water (0.4 m, 8 s, 18.0 C) in summer time (UTC+1); no key and a long
\* swell on cold water (12 s, 9.0 C)
FishEnvs ==
    { [WT_KEY |-> FALSE, OVERRIDE_WAVE_H |-> None, OVERRIDE_WAVE_T |-> None,
       OVERRIDE_SEA_T |-> None, utc_offset |-> 0],
      [WT_KEY |-> TRUE, OVERRIDE_WAVE_H |-> 4, OVERRIDE_WAVE_T |-> 8,
       OVERRIDE_SEA_T |-> 180, utc_offset |-> 1],
      [WT_KEY |-> FALSE, OVERRIDE_WAVE_H |-> None, OVERRIDE_WAVE_T |-> 12,
       OVERRIDE_SEA_T |-> 90, utc_offset |-> 0] }

NoEnv ==
    [WT_KEY |-> FALSE, OVERRIDE_WAVE_H |-> None, OVERRIDE_WAVE_T |-> None,
     OVERRIDE_SEA_T |-> None, utc_offset |-> 0]

\* fetch_worldtides without a key, or with both requests failing
NoTides == [heights |-> <<>>, extremes |-> <<>>]

\* an hourly tide curve in cm from 15:00 UTC: high water at 22:00, low water
\* at 28:00
TideCurve ==
    <<20, 40, 70, 100, 130, 165, 190, 200, 194, 170, 140, 100, 60, 40, 45, 70>>

TideSeries ==
    [heights |-> [i \in 1..Len(TideCurve) |-> [dt |-> 14 + i, height |-> TideCurve[i]]],
     extremes |-> << [dt |-> 22, type |-> "High", height |-> 200],
                     [dt |-> 28, type |-> "Low", height |-> 40] >>]

\* the answer to the extremes request: the extremes of the curve as listed by
\* the provider, here latest first and with one entry that has no time; or
\* nothing, when wt_request returns None
ExtremeResponses ==
    { <<>>,
      TideSeries.extremes,
      << [dt |-> 28, type |-> "Low", height |-> 40],
         [dt |-> None, type |-> "High", height |-> 200],
         [dt |-> 22, type |-> "High", height |-> 200] >> }

\* the answer to the heights request: the hourly samples, or nothing
HeightResponses == { <<>>, TideSeries.heights }

\* build_payload() is not running
FishIdle ==
    /\ hourly = <<>>
    /\ env = NoEnv
    /\ wt = NoTides
    /\ rows = <<>>
    /\ ridx = 1
    /\ windows = <<>>
    /\ fpc = "idle"

\* the configuration is the one of the module
AsConfigured == conf = SourceWeights

\* no pure-function call is being made
NoCall == [fn |-> "none", arg |-> None, done |-> FALSE, ret |-> None]

\* ------------------------------------------------------------------------
\* build_night_windows_from_hourly
\* ------------------------------------------------------------------------
\* the start of main(): nothing scanned, nothing scored, no night
ScanStart ==
    /\ hours = <<>>
    /\ idx = 1
    /\ in_dark = FALSE
    /\ start_dt = None
    /\ prev_dt = None
    /\ end_dt = None
    /\ wins = <<>>
    /\ widx = 1
    /\ per_hour = <<>>
    /\ nights_out = <<>>
    /\ payload = <<>>
    /\ pc = "sort"
    /\ call = NoCall
    /\ FishIdle

\* records of every shape that carry no weather
TimedData ==
    \/ GeneralData
    \/ data \in NightInputs
    \/ data \in UndatedInputs

InitData ==
    /\ \/ TimedData
       \/ WeatherData
       \/ TwoNightData
    /\ ScanStart

\* main() with the weights of the module
Init == InitData /\ AsConfigured

\* weights an edit of the module could set: those of the source, clouds at
\* 0.90 (sum 1.5), brightness at -0.20 (sum 0.6)
WeightChoices ==
    { SourceWeights,
      [SourceWeights EXCEPT !.W_CLOUDS = FRatio(90, 100)],
      [SourceWeights EXCEPT !.W_BRIGHT = FNeg(FRatio(20, 100))] }

\* main() with any of these weights: nothing reads them before hour_quality
InitConf == InitData /\ conf \in WeightChoices

\* non-negative buffers an edit of the module could set: none, those of the
\* source, and two hours at one side only
BufferChoices ==
    { [SourceWeights EXCEPT !.SUNSET_BUFFER_H = b[1], !.SUNRISE_BUFFER_H = b[2]] :
        b \in {<<0, 0>>, <<1, 1>>, <<2, 0>>, <<0, 2>>} }

\* main() with any of these buffers, on the records without weather: the
\* buffers act on the windows only
InitBuffers == TimedData /\ ScanStart /\ conf \in BufferChoices

\* hours = sorted(...); wins = []; in_dark = False; start_dt = prev_dt = None
SortHours ==
    /\ pc = "sort"
    /\ IF SortRaises(data)
       THEN /\ pc' = "raised"
            /\ hours' = hours
       ELSE /\ pc' = "scan"
            /\ hours' = SortByDate(data)
    /\ UNCHANGED <<data, idx, in_dark, start_dt, prev_dt, end_dt, wins, mainVars>>
    /\ UNCHANGED sideVars

\* variant: the run's start survives the closing of the run
ScanRecordKeepsStart ==
    /\ pc = "scan"
    /\ idx <= Len(hours)
    /\ LET h == hours[idx]
           dt_local == _get(h, "date")
           dark == IsDark(h)
           entering == dark /\ ~in_dark
           in1 == in_dark \/ entering
           start1 == IF entering THEN dt_local ELSE start_dt
           closing == in1 /\ ~dark
       IN IF dt_local = None
          THEN UNCHANGED <<in_dark, start_dt, prev_dt, end_dt, wins>>
          ELSE /\ in_dark' = IF closing THEN FALSE ELSE in1
               /\ start_dt' = start1
               /\ end_dt' = IF closing THEN RawEnd(prev_dt, dt_local) ELSE end_dt
               /\ wins' = IF closing
                          THEN CloseRun(wins, start1, RawEnd(prev_dt, dt_local))
                          ELSE wins
               /\ prev_dt' = dt_local
    /\ idx' = idx + 1
    /\ UNCHANGED <<data, hours, pc, mainVars>>
    /\ UNCHANGED sideVars

\* one iteration of "for h in hours"
ScanRecord ==
    /\ pc = "scan"
    /\ idx <= Len(hours)
    /\ LET h == hours[idx]
           dt_local == _get(h, "date")
           dark == IsDark(h)
           entering == dark /\ ~in_dark
           in1 == in_dark \/ entering
           start1 == IF entering THEN dt_local ELSE start_dt
           closing == in1 /\ ~dark
       IN IF dt_local = None
          THEN UNCHANGED <<in_dark, start_dt, prev_dt, end_dt, wins>>
          ELSE /\ in_dark' = IF closing THEN FALSE ELSE in1
               /\ start_dt' = IF closing THEN None ELSE start1
               /\ end_dt' = IF closing THEN RawEnd(prev_dt, dt_local) ELSE end_dt
               /\ wins' = IF closing
                          THEN CloseRun(wins, start1, RawEnd(prev_dt, dt_local))
                          ELSE wins
               /\ prev_dt' = dt_local
    /\ idx' = idx + 1
    /\ UNCHANGED <<data, hours, pc, mainVars>>
    /\ UNCHANGED sideVars

\* variant: the loop's end drops the run still open
FlushNoTrailing ==
    /\ pc = "scan"
    /\ idx > Len(hours)
    /\ pc' = "aggregate"
    /\ UNCHANGED <<data, hours, idx, in_dark, start_dt, prev_dt, end_dt, wins, mainVars>>
    /\ UNCHANGED sideVars

\* after the loop: the trailing window of a run still open
Flush ==
    /\ pc = "scan"
    /\ idx > Len(hours)
    /\ wins' = IF in_dark /\ start_dt # None /\ prev_dt # None
               THEN CloseRun(wins, start_dt, prev_dt)
               ELSE wins
    /\ pc' = "aggregate"
    /\ UNCHANGED <<data, hours, idx, in_dark, start_dt, prev_dt, end_dt, mainVars>>
    /\ UNCHANGED sideVars

\* one iteration of "for w in windows" in main()
ProcessWindow ==
    /\ pc = "aggregate"
    /\ widx <= Len(wins)
    /\ LET w == wins[widx]
           hrs == HoursIn(w, data)
       IN IF hrs = <<>>
          THEN UNCHANGED <<per_hour, nights_out>>
          ELSE /\ per_hour' = ScoreHours(hrs)
               /\ nights_out' = Append(nights_out, NightOf(w, per_hour'))
    /\ widx' = widx + 1
    /\ UNCHANGED <<data, hours, idx, in_dark, start_dt, prev_dt, end_dt, wins, payload, pc>>
    /\ UNCHANGED sideVars

\* astro_payload = {..., "nights": sorted(nights_out, key=start), ...}
BuildPayload ==
    /\ pc = "aggregate"
    /\ widx > Len(wins)
    /\ payload' = SortByStart(nights_out)
    /\ pc' = "done"
    /\ UNCHANGED <<data, hours, idx, in_dark, start_dt, prev_dt, end_dt, wins,
                   widx, per_hour, nights_out>>
    /\ UNCHANGED sideVars

Next == SortHours \/ ScanRecord \/ Flush \/ ProcessWindow \/ BuildPayload

Spec == Init /\ [][Next]_vars

\* the same runs under each choice of buffers
SpecBuffers == InitBuffers /\ [][Next]_vars

SpecConf == InitConf /\ [][Next]_vars

\* ------------------------------------------------------------------------
\* fish_build.build_payload()
\* ------------------------------------------------------------------------
\* main() of astro_build is not running
AstroIdle ==
    /\ data = <<>>
    /\ hours = <<>>
    /\ idx = 1
    /\ in_dark = FALSE
    /\ start_dt = None
    /\ prev_dt = None
    /\ end_dt = None
    /\ wins = <<>>
    /\ widx = 1
    /\ per_hour = <<>>
    /\ nights_out = <<>>
    /\ payload = <<>>
    /\ pc = "idle"

InitFish ==
    /\ AsConfigured
    /\ AstroIdle
    /\ call = NoCall
    /\ FishData
    /\ env \in FishEnvs
    /\ wt = NoTides
    /\ rows = <<>>
    /\ ridx = 1
    /\ windows = <<>>
    /\ fpc = "fetch"

\* hourly = fc.hourly.data or []; an empty forecast returns no windows;
\* otherwise fetch_worldtides: without a key it returns empty lists, with a
\* key it first requests the extremes
FetchExtremes ==
    /\ fpc = "fetch"
    /\ IF hourly = <<>>
       THEN /\ fpc' = "done"
            /\ wt' = wt
       ELSE IF ~env.WT_KEY
       THEN /\ fpc' = "rows"
            /\ wt' = NoTides
       ELSE /\ fpc' = "heights"
            /\ \E resp \in ExtremeResponses :
                  wt' = [heights |-> <<>>, extremes |-> Timed(resp)]
    /\ UNCHANGED <<hourly, env, rows, ridx, windows>>
    /\ UNCHANGED <<astroVars, call, conf>>

\* the second request of fetch_worldtides: the hourly heights
FetchHeights ==
    /\ fpc = "heights"
    /\ \E resp \in HeightResponses : wt' = [wt EXCEPT !.heights = Timed(resp)]
    /\ fpc' = "rows"
    /\ UNCHANGED <<hourly, env, rows, ridx, windows>>
    /\ UNCHANGED <<astroVars, call, conf>>

\* one pass of "for h in hourly": records without a date are skipped
ScoreRow ==
    /\ fpc = "rows"
    /\ ridx <= Len(hourly)
    /\ rows' = IF _get(hourly[ridx], "date") = None
               THEN rows
               ELSE Append(rows, FishRow(hourly[ridx], hourly, env, wt))
    /\ ridx' = ridx + 1
    /\ UNCHANGED <<hourly, env, wt, windows, fpc>>
    /\ UNCHANGED <<astroVars, call, conf>>

\* the 2-hour windows per day and the returned payload
BuildWindows ==
    /\ fpc = "rows"
    /\ ridx > Len(hourly)
    /\ windows' = FishWindows(rows)
    /\ fpc' = "done"
    /\ UNCHANGED <<hourly, env, wt, rows, ridx>>
    /\ UNCHANGED <<astroVars, call, conf>>

NextFish == FetchExtremes \/ FetchHeights \/ ScoreRow \/ BuildWindows

SpecFish == InitFish /\ [][NextFish]_vars

\* ------------------------------------------------------------------------
\* Calls of the astro sub-scores on enumerated records
\* ------------------------------------------------------------------------
\* temperatures and dew points in tenths of a degree, absent or non-numeric
TempArgs == {None, Malformed, -30, 0, 50, 100}
DewArgs == {None, Malformed, -30, 0, 20, 50}
\* the dew point under its second spelling "dewpoint"
DewAltArgs == {None, 0, 20}

\* cloud cover of a tier or in total, percent
CloudArgs == {None, Malformed, 0, 30, 100, 130}

\* dew spreads, wind speeds and visibilities around the fog tiers (tenths)
FogSpreadArgs == {None, -10, 0, 10, 11, 30, 31, 50, 51}
FogWindArgs == {None, 0, 15, 16, 30, 31}
FogVisArgs == {None, 0, 49, 50, 99, 100}

ScoreCalls ==
    { [fn |-> "dewspread_score", done |-> FALSE, ret |-> None,
       arg |-> ("temperature" :> t) @@ ("dew_point" :> d) @@ ("dewpoint" :> e)] :
        t \in TempArgs, d \in DewArgs, e \in DewAltArgs }
    \cup
    { [fn |-> "clouds_score", done |-> FALSE, ret |-> None,
       arg |-> ("cloud_cover.low" :> l) @@ ("cloud_cover.middle" :> m)
               @@ ("cloud_cover.high" :> h) @@ ("cloud_cover.total" :> t)] :
        l \in CloudArgs, m \in CloudArgs, h \in CloudArgs, t \in CloudArgs }
    \cup
    { [fn |-> "fog_probability", done |-> FALSE, ret |-> None,
       arg |-> ("spread_C" :> d) @@ ("wind_ms" :> w) @@ ("vis_km" :> v)] :
        d \in FogSpreadArgs, w \in FogWindArgs, v \in FogVisArgs }

InitScore ==
    /\ AsConfigured
    /\ AstroIdle
    /\ FishIdle
    /\ call \in ScoreCalls

\* s_d, n_d, spread = dewspread_score(h)
CallDewspread ==
    /\ call.fn = "dewspread_score"
    /\ ~call.done
    /\ call' = [call EXCEPT !.done = TRUE, !.ret = dewspread_score(call.arg)]
    /\ UNCHANGED <<astroVars, fishVars, conf>>

\* s_c, n_c = clouds_score(h)
CallClouds ==
    /\ call.fn = "clouds_score"
    /\ ~call.done
    /\ call' = [call EXCEPT !.done = TRUE, !.ret = clouds_score(call.arg)]
    /\ UNCHANGED <<astroVars, fishVars, conf>>

\* fogp = fog_probability(spread, wind, vis)
CallFog ==
    /\ call.fn = "fog_probability"
    /\ ~call.done
    /\ call' = [call EXCEPT !.done = TRUE,
                            !.ret = fog_probability(FloatOf(call.arg["spread_C"], 10),
                                                    FloatOf(call.arg["wind_ms"], 10),
                                                    FloatOf(call.arg["vis_km"], 10))]
    /\ UNCHANGED <<astroVars, fishVars, conf>>

NextScore == CallDewspread \/ CallClouds \/ CallFog

SpecScore == InitScore /\ [][NextScore]_vars

\* ------------------------------------------------------------------------
\* Calls of the tide score on enumerated series
\* ------------------------------------------------------------------------
\* tide heights in cm: rates of 0.01 and 0.05 m/h between neighbours, a
\* saturating rise of 1 m, and three rises of exactly 0.03 m/h on paper: 0.00
\* to 0.06 m and 0.01 to 0.07 m over two hours, 1.00 to 1.03 m over one
TideLevels == {0, 1, 5, 6, 7, 100, 103}

\* the samples are hourly from 10:00 UTC; the target times
TideTimes == 9..13

\* the height series of n samples
TideHeightSeries(n) ==
    { [i \in 1..n |-> [dt |-> 9 + i, height |-> lv[i]]] : lv \in [1..n -> TideLevels] }

\* the times of the extremes
ExtremeTimes == {12, 15}

\* the types of an extreme: the provider's "High" and "Low", and the ""
\* fetch_worldtides stores for an entry without a type
ExtremeTypes == {"High", "Low", ""}

\* the extremes lists: none, one extreme, or two of alternating type
ExtremeLists ==
    { <<>> }
    \cup { << [dt |-> t, type |-> ty, height |-> 0] >> :
              t \in ExtremeTimes, ty \in ExtremeTypes }
    \cup { << [dt |-> p[1], type |-> ty[1], height |-> 0],
              [dt |-> p[2], type |-> ty[2], height |-> 0] >> :
              p \in { q \in ExtremeTimes \X ExtremeTimes : q[1] < q[2] },
              ty \in { <<"High", "Low">>, <<"Low", "High">> } }

InitTide ==
    /\ AsConfigured
    /\ AstroIdle
    /\ FishIdle
    /\ \E n \in 0..MaxTideSamples : \E hts \in TideHeightSeries(n) :
       \E exs \in ExtremeLists : \E t \in TideTimes : \E k \in BOOLEAN :
          call = [fn |-> "score_tide", done |-> FALSE, ret |-> None,
                  arg |-> [key |-> k, dt_utc |-> t, heights |-> hts, extremes |-> exs]]

\* s_tide, n_tide = score_tide(dt_utc, heights, extremes) if WT_KEY else
\* (60.0, ...): the score, and the phase named in the note ("?" without a
\* series or a key)
CallScoreTide ==
    /\ call.fn = "score_tide"
    /\ ~call.done
    /\ call' = [call EXCEPT
          !.done = TRUE,
          !.ret = [score |-> TideSubScore(call.arg.key, call.arg.dt_utc,
                                          call.arg.heights, call.arg.extremes),
                   phase |-> IF call.arg.key /\ call.arg.heights # <<>>
                             THEN tide_phase(call.arg.dt_utc, call.arg.heights)
                             ELSE "?"]]
    /\ UNCHANGED <<astroVars, fishVars, conf>>

NextTide == CallScoreTide

SpecTide == InitTide /\ [][NextTide]_vars

\* ------------------------------------------------------------------------
\* Both builds: either one on its inputs, or both on a forecast without
\* hourly records.  The empty sequence stands for an empty and for an absent
\* data attribute alike: every read of it is "data or []".
\* ------------------------------------------------------------------------
InitNoData ==
    /\ AsConfigured
    /\ data = <<>>
    /\ hours = <<>>
    /\ idx = 1
    /\ in_dark = FALSE
    /\ start_dt = None
    /\ prev_dt = None
    /\ end_dt = None
    /\ wins = <<>>
    /\ widx = 1
    /\ per_hour = <<>>
    /\ nights_out = <<>>
    /\ payload = <<>>
    /\ pc = "sort"
    /\ call = NoCall
    /\ hourly = <<>>
    /\ env \in FishEnvs
    /\ wt = NoTides
    /\ rows = <<>>
    /\ ridx = 1
    /\ windows = <<>>
    /\ fpc = "fetch"

InitAll == Init \/ InitFish \/ InitNoData

NextAll == Next \/ NextFish

SpecAll == InitAll /\ [][NextAll]_vars

\* ------------------------------------------------------------------------
\* Calls of the pure functions on enumerated arguments
\* ------------------------------------------------------------------------
\* scores in tenths of a point, 0.0 .. 100.0
ScoreArgs == 0..1000

Calls ==
    { [fn |-> f, arg |-> a, done |-> FALSE, ret |-> None] :
        f \in {"classify", "fish_cls"}, a \in ScoreArgs }

\* main() is not running
InitFn ==
    /\ AsConfigured
    /\ data = <<>>
    /\ hours = <<>>
    /\ idx = 1
    /\ in_dark = FALSE
    /\ start_dt = None
    /\ prev_dt = None
    /\ end_dt = None
    /\ wins = <<>>
    /\ widx = 1
    /\ per_hour = <<>>
    /\ nights_out = <<>>
    /\ payload = <<>>
    /\ pc = "idle"
    /\ call \in Calls
    /\ FishIdle

\* klass = classify(night_score)
CallClassify ==
    /\ call.fn = "classify"
    /\ ~call.done
    /\ call' = [call EXCEPT !.done = TRUE, !.ret = classify(call.arg)]
    /\ UNCHANGED <<astroVars, fishVars, conf>>

\* cls = "GOOD" if s>=75 else "FAIR" if s>=60 else "POOR"
CallFishCls ==
    /\ call.fn = "fish_cls"
    /\ ~call.done
    /\ call' = [call EXCEPT !.done = TRUE, !.ret = fish_cls(FRatio(call.arg, 10))]
    /\ UNCHANGED <<astroVars, fishVars, conf>>

NextFn == CallClassify \/ CallFishCls

SpecFn == InitFn /\ [][NextFn]_vars

\* ------------------------------------------------------------------------
\* Vocabulary of the properties
\* ------------------------------------------------------------------------
DateAt(s, i) == _get(s[i], "date")

\* build_night_windows_from_hourly has returned
ScanOver == pc \in {"aggregate", "done"}

AllDated(s) == \A i \in 1..Len(s) : DateAt(s, i) # None

\* the maximal contiguous runs of qualifying records of s, as <<first, last>>
QualRuns(s) ==
    { r \in (1..Len(s)) \X (1..Len(s)) :
        /\ r[1] <= r[2]
        /\ \A k \in r[1]..r[2] : IsDark(s[k])
        /\ (r[1] = 1 \/ ~IsDark(s[r[1] - 1]))
        /\ (r[2] = Len(s) \/ ~IsDark(s[r[2] + 1])) }

\* the runs whose buffered interval is non-empty
KeptRuns(s) ==
    { r \in QualRuns(s) :
        DateAt(s, r[1]) + SUNSET_BUFFER_H < DateAt(s, r[2]) - SUNRISE_BUFFER_H }

\* first index of the qualifying run that ends at index j
RunStart(s, j) ==
    CHOOSE i \in 1..j :
        /\ \A k \in i..j : IsDark(s[k])
        /\ (i = 1 \/ ~IsDark(s[i - 1]))

\* C1: when the scan of a timestamped, sorted sequence is over, the windows
\* are in one-to-one correspondence with the maximal qualifying runs whose
\* buffered interval is non-empty: each such run [s, e] gives the window
\* [s + start buffer, e - end buffer], no other window exists, and a run of
\* at most 3 hourly samples gives none.
C1_WindowsMatchRuns ==
    (ScanOver /\ AllDated(hours)) =>
        /\ Len(wins) = Cardinality(KeptRuns(hours))
        /\ \A r \in KeptRuns(hours) :
              \E k \in 1..Len(wins) :
                 /\ wins[k].start = DateAt(hours, r[1]) + SUNSET_BUFFER_H
                 /\ wins[k].end = DateAt(hours, r[2]) - SUNRISE_BUFFER_H
        /\ \A k \in 1..Len(wins) :
              \E r \in KeptRuns(hours) :
                 /\ wins[k].start = DateAt(hours, r[1]) + SUNSET_BUFFER_H
                 /\ wins[k].end = DateAt(hours, r[2]) - SUNRISE_BUFFER_H
        /\ \A r \in QualRuns(hours) :
              (/\ r[2] - r[1] + 1 <= 3
               /\ DateAt(hours, r[2]) - DateAt(hours, r[1]) = r[2] - r[1])
              => \A k \in 1..Len(wins) : wins[k].start # DateAt(hours, r[1]) + 1

\* a finished scan that kept one run and dropped another
C1_Witness ==
    /\ ScanOver
    /\ AllDated(hours)
    /\ Len(wins) >= 1
    /\ Cardinality(QualRuns(hours)) > Cardinality(KeptRuns(hours))

\* C2: right after a non-qualifying record has closed a run, the raw end of
\* that run is the timestamp of the last qualifying record, not that of the
\* closing record, and a window emitted for the run ends at that raw end
\* minus the end buffer.
C2_RawEndIsLastQualifying ==
    (/\ pc = "scan"
     /\ idx > 2
     /\ AllDated(hours)
     /\ ~IsDark(hours[idx - 1])
     /\ IsDark(hours[idx - 2])) =>
        LET j == idx - 2
            i == RunStart(hours, j)
        IN /\ end_dt = DateAt(hours, j)
           /\ end_dt # DateAt(hours, idx - 1)
           /\ (DateAt(hours, i) + SUNSET_BUFFER_H < DateAt(hours, j) - SUNRISE_BUFFER_H)
                => /\ wins # <<>>
                   /\ wins[Len(wins)].end = DateAt(hours, j) - SUNRISE_BUFFER_H

\* a run has just been closed mid-sequence and its window emitted
C2_Witness ==
    /\ pc = "scan"
    /\ idx > 2
    /\ ~IsDark(hours[idx - 1])
    /\ IsDark(hours[idx - 2])
    /\ wins # <<>>
    /\ wins[Len(wins)].end = end_dt - SUNRISE_BUFFER_H
    /\ end_dt = DateAt(hours, idx - 2)

\* C3: the scan starts OUTSIDE with no window; when the input ends inside a
\* run, the run is closed with the last record's timestamp as raw end, under
\* the same trimming and start < end test; an input without a qualifying
\* record emits nothing.
C3_TrailingFlush ==
    /\ (pc = "sort" => (~in_dark /\ wins = <<>>))
    /\ (ScanOver /\ (\A k \in 1..Len(hours) : ~IsDark(hours[k]))) => wins = <<>>
    /\ (/\ ScanOver
        /\ hours # <<>>
        /\ AllDated(hours)
        /\ IsDark(hours[Len(hours)])) =>
           LET j == Len(hours)
               st == DateAt(hours, RunStart(hours, j)) + SUNSET_BUFFER_H
               en == DateAt(hours, j) - SUNRISE_BUFFER_H
           IN /\ in_dark
              /\ IF st < en
                 THEN wins # <<>> /\ wins[Len(wins)] = NightWindow(st, en)
                 ELSE \A k \in 1..Len(wins) : wins[k].start # st

\* the input ended inside a run and the flush emitted its window
C3_Witness ==
    /\ ScanOver
    /\ in_dark
    /\ hours # <<>>
    /\ IsDark(hours[Len(hours)])
    /\ wins # <<>>
    /\ wins[Len(wins)].end = DateAt(hours, Len(hours)) - SUNRISE_BUFFER_H

\* the inputs of the buffering example: hourly samples, qualifying exactly
\* during [20:00, 06:00)
IsNightExample == data \in NightInputs

\* C4 as stated: the example yields exactly one window, from 21:00 to 05:00.
C4_AsStated ==
    (ScanOver /\ IsNightExample) =>
        /\ Len(wins) = 1
        /\ wins[1].start = 21
        /\ wins[1].end = 24 + 5

\* C4 amended: the example yields exactly one window, from 21:00 to 04:00
\* (the last qualifying sample, 05:00, less the 1-hour end buffer).
C4_NightExample ==
    (ScanOver /\ IsNightExample) =>
        /\ Len(wins) = 1
        /\ wins[1].start = 21
        /\ wins[1].end = 24 + 4

\* the example input has been scanned and its window emitted
C4_Witness ==
    /\ ScanOver
    /\ IsNightExample
    /\ Len(wins) = 1

\* ------------------------------------------------------------------------
\* Aggregation properties
\* ------------------------------------------------------------------------
\* the window processed last produced the night appended last
LastNightFresh ==
    /\ pc \in {"aggregate", "done"}
    /\ widx > 1
    /\ nights_out # <<>>
    /\ nights_out[Len(nights_out)].start = wins[widx - 1].start

LastNight == nights_out[Len(nights_out)]

InRange(x, lo, hi) == lo <= x /\ x <= hi

\* lo <= x <= hi for a float x and whole numbers lo and hi
FInRange(x, lo, hi) == FLe(FInt(lo), x) /\ FLe(x, FInt(hi))

\* a float to the nearest tenth, in tenths, and to the nearest thousandth, in
\* thousandths: values the floats of the program equal up to their rounding
Tenths(x) == FRoundTo(x, 10)
Thousandths(x) == FRoundTo(x, 1000)

\* the six quality components
QualityComps == {"clouds", "visibility", "dewspread", "wind", "precip", "brightness"}

\* C5: every sub-score and every per-hour composite returned by hour_quality
\* lies in [0,100], also for out-of-range fields, and so does every night
\* score of the report.
C5_ScoresClamped ==
    /\ \A i \in 1..Len(per_hour) :
          /\ \A k \in QualityComps : FInRange(per_hour[i].comps[k], 0, 100)
          /\ FInRange(per_hour[i].score, 0, 100)
    /\ \A i \in 1..Len(nights_out) : InRange(nights_out[i].score, 0, 1000)
    /\ \A i \in 1..Len(payload) : InRange(payload[i].score, 0, 1000)

\* a record none of whose weather fields is present
AllMissing(h) == DOMAIN h \subseteq {"date", "sun_alt", "moon_alt", "moon_term"}

\* C7: scoring a record with every weather field missing does not raise and
\* gives the neutral constants: clouds 50, visibility 60, dew spread 60 with
\* spread None, wind 60, precip 85, fog probability 0.
C7_NeutralFallbacks ==
    LastNightFresh =>
        LET hrs == HoursIn(wins[widx - 1], data)
        IN /\ pc # "raised"
           /\ Len(per_hour) = Len(hrs)
           /\ \A i \in 1..Len(hrs) :
                 AllMissing(hrs[i]) =>
                    /\ per_hour[i].comps.clouds = FInt(50)
                    /\ per_hour[i].comps.visibility = FInt(60)
                    /\ per_hour[i].comps.dewspread = FInt(60)
                    /\ dewspread_score(hrs[i]).spread = FNone
                    /\ per_hour[i].comps.wind = FInt(60)
                    /\ per_hour[i].comps.precip = FInt(85)
                    /\ per_hour[i].comps._fogp = 0
                    /\ fog_probability(FNone, FNone, FNone) = 0

\* a window holding an all-missing record has been scored
C7_Witness ==
    /\ LastNightFresh
    /\ \E i \in 1..Len(per_hour) :
          /\ AllMissing(HoursIn(wins[widx - 1], data)[i])
          /\ per_hour[i].comps.clouds = FInt(50)
          /\ per_hour[i].comps.precip = FInt(85)

\* the float x times 2^k: exact
TimesPow2(x, k) == IF x.s = 0 THEN x ELSE [x EXCEPT !.e = @ + k]

\* floats whose exact sum is -2 * p * x, for p = 1 and p = 10
MinusTwice(x, p) ==
    IF p = 1 THEN <<FNeg(TimesPow2(x, 1))>>
    ELSE <<FNeg(TimesPow2(x, 4)), FNeg(TimesPow2(x, 2))>>

\* the integer v is p * x rounded to the nearest integer, to the even one
\* when p * x lies halfway: 2v - 1 <= 2px <= 2v + 1 on the exact value of
\* the float x
IsNearest(v, x, p) ==
    LET above == ExactSum(<<FInt(2 * v + 1)>> \o MinusTwice(x, p)).s
        below == ExactSum(<<FInt(2 * v - 1)>> \o MinusTwice(x, p)).s
    IN /\ above >= 0
       /\ below <= 0
       /\ (above = 0 \/ below = 0) => v % 2 = 0

\* mean of the pair (i, i+1) of per-hour composites
PairMean(ph, i) == FMean(<<ph[i].score, ph[i + 1].score>>)

\* the composites of per_hour are the whole numbers pts
HasPoints(ph, pts) ==
    /\ Len(ph) = Len(pts)
    /\ \A i \in 1..Len(ph) : ph[i].score = FInt(pts[i])

\* C8: with n >= 2 scored hours the reported best 2-hour sub-window is the
\* first pair of consecutive hours whose mean composite is maximal: no pair
\* has a greater mean and every earlier pair a smaller one.  Its average is
\* that mean to the nearest tenth; composites [50, 90, 95, 40] give hours
\* 2-3 with mean 92.5.
C8_Best2hFirstMax ==
    (LastNightFresh /\ Len(per_hour) >= 2) =>
        LET n == Len(per_hour)
            best == LastNight.best2h
        IN /\ best # NoBest2h
           /\ \E i \in 1..(n - 1) :
                 /\ \A j \in 1..(n - 1) : FLe(PairMean(per_hour, j), PairMean(per_hour, i))
                 /\ \A j \in 1..(i - 1) : FLt(PairMean(per_hour, j), PairMean(per_hour, i))
                 /\ best.t0 = per_hour[i].date
                 /\ best.t1 = per_hour[i + 1].date
                 /\ IsNearest(best.avg, PairMean(per_hour, i), 10)
           /\ HasPoints(per_hour, <<50, 90, 95, 40>>)
                => /\ best.t0 = per_hour[2].date
                   /\ best.t1 = per_hour[3].date
                   /\ best.avg = 925

\* the example of C8 has been aggregated
C8_Witness ==
    /\ LastNightFresh
    /\ HasPoints(per_hour, <<50, 90, 95, 40>>)
    /\ LastNight.best2h.avg = 925

\* a night of three hours whose two pair means are both 42.4 on paper: the
\* composite of the third hour is one bit above that of the first, the mean
\* of the later pair is the greater float and the later pair is reported
C8_WitnessNear ==
    /\ LastNightFresh
    /\ Len(per_hour) = 3
    /\ per_hour[2].score = FInt(50)
    /\ Tenths(per_hour[1].score) = 348
    /\ Tenths(per_hour[3].score) = 348
    /\ FLt(per_hour[1].score, per_hour[3].score)
    /\ FLt(PairMean(per_hour, 1), PairMean(per_hour, 2))
    /\ LastNight.best2h.t0 = per_hour[2].date
    /\ LastNight.best2h.avg = 424

\* a night whose two pairs have the same mean, 70.0: the first is reported
C8_WitnessTie ==
    /\ LastNightFresh
    /\ HasPoints(per_hour, <<50, 90, 50>>)
    /\ LastNight.best2h.t0 = per_hour[1].date
    /\ LastNight.best2h.avg = 700

\* the component averages of per_hour are the whole numbers of avgs, to the
\* thousandth
HasAverages(ph, avgs) ==
    \A k \in QualityComps : FRoundTo(CompMean(ph, k), 1000) = 1000 * avgs[k]

\* the averages of the example of C10
ExampleAverages ==
    [clouds |-> 30, brightness |-> 40, wind |-> 90, precip |-> 95, visibility |-> 70,
     dewspread |-> 85]

\* C10: the report lists exactly three factors, those with the lowest
\* averages over the window's hours, in ascending order of average, each with
\* its average rounded to the nearest integer; averages clouds 30,
\* brightness 40, wind 90, precip 95, visibility 70, dewspread 85 give
\* clouds, brightness, visibility.
C10_LimitingFactors ==
    LastNightFresh =>
        LET avg == [clouds |-> CompMean(per_hour, "clouds"),
                    brightness |-> CompMean(per_hour, "brightness"),
                    dewspread |-> CompMean(per_hour, "dewspread"),
                    visibility |-> CompMean(per_hour, "visibility"),
                    wind |-> CompMean(per_hour, "wind"),
                    precip |-> CompMean(per_hour, "precip")]
            w == LastNight.worst
            listed == { w[j].name : j \in 1..Len(w) }
        IN /\ DOMAIN avg = QualityComps
           /\ Len(w) = 3
           /\ Cardinality(listed) = 3
           /\ listed \subseteq QualityComps
           /\ \A j \in 1..2 : FLe(avg[w[j].name], avg[w[j + 1].name])
           /\ \A k \in QualityComps \ listed : \A j \in 1..3 : FLe(avg[w[j].name], avg[k])
           /\ \A j \in 1..3 : IsNearest(w[j].value, avg[w[j].name], 1)
           /\ HasAverages(per_hour, ExampleAverages)
              => w = << [name |-> "clouds", value |-> 30],
                        [name |-> "brightness", value |-> 40],
                        [name |-> "visibility", value |-> 70] >>

\* the example of C10 has been aggregated
C10_Witness ==
    /\ LastNightFresh
    /\ HasAverages(per_hour, ExampleAverages)
    /\ LastNight.worst[3].name = "visibility"

\* a night whose visibility and brightness averages are both 89.5 on paper:
\* the visibility average is the smaller float, is listed first and rounds
\* down to 89, the brightness average rounds up to 90
C10_WitnessNear ==
    /\ LastNightFresh
    /\ Tenths(CompMean(per_hour, "visibility")) = 895
    /\ Tenths(CompMean(per_hour, "brightness")) = 895
    /\ FLt(CompMean(per_hour, "visibility"), CompMean(per_hour, "brightness"))
    /\ LastNight.worst[1] = [name |-> "visibility", value |-> 89]
    /\ LastNight.worst[2] = [name |-> "brightness", value |-> 90]

\* ------------------------------------------------------------------------
\* Classification
\* ------------------------------------------------------------------------
\* C9: classify gives GREAT from 75 up, OK from 60 up to 75, POOR below 60
\* (75.0 GREAT, 74.9 OK, 60.0 OK, 59.9 POOR); the fishing class has the same
\* cut points with the labels GOOD, FAIR, POOR.
C9_ClassBoundaries ==
    call.done =>
        /\ call.fn = "classify" =>
              /\ (call.arg >= 750) = (call.ret = "GREAT")
              /\ (call.arg >= 600 /\ call.arg < 750) = (call.ret = "OK")
              /\ (call.arg < 600) = (call.ret = "POOR")
              /\ call.arg = 750 => call.ret = "GREAT"
              /\ call.arg = 749 => call.ret = "OK"
              /\ call.arg = 600 => call.ret = "OK"
              /\ call.arg = 599 => call.ret = "POOR"
        /\ call.fn = "fish_cls" =>
              /\ (call.arg >= 750) = (call.ret = "GOOD")
              /\ (call.arg >= 600 /\ call.arg < 750) = (call.ret = "FAIR")
              /\ (call.arg < 600) = (call.ret = "POOR")

\* classify has been applied to the boundary score 75.0
C9_Witness ==
    /\ call.done
    /\ call.fn = "classify"
    /\ call.arg = 750
    /\ call.ret = "GREAT"

\* ------------------------------------------------------------------------
\* Fishing composite
\* ------------------------------------------------------------------------
\* the records of the forecast that carry a timestamp, in input order
DatedHourly == SelectSeq(hourly, LAMBDA h : _get(h, "date") # None)

\* the weighted sum of the eight sub-scores with the stated weights, plus 6
\* points when the sun is strictly between -12 and +6 degrees, in 1e-5 of a
\* point (each sub-score taken to the thousandth of a point)
StatedComposite(h) ==
    LET sub == FishSubScores(h, hourly, env, wt)
    IN 25 * Thousandths(sub.wind) + 8 * Thousandths(sub.clouds)
       + 8 * Thousandths(sub.precip) + 8 * Thousandths(sub.pressure)
       + 5 * Thousandths(sub.humidity) + 20 * Thousandths(sub.wave)
       + 6 * Thousandths(sub.seatemp) + 20 * Thousandths(sub.tide)
       + (IF -12 < SunAlt(h) /\ SunAlt(h) < 6 THEN 600000 ELSE 0)

\* a per-hour score to 1e-5 of a point
HundredThousandths(x) == FRoundTo(x, 100000)

\* C6: the fishing per-hour score is the weighted sum of the eight
\* sub-scores (weights 0.25, 0.08, 0.08, 0.08, 0.05, 0.20, 0.06, 0.20, summing
\* to 1.0) plus a bonus of 6 when the solar altitude is strictly between -12
\* and +6 degrees, clamped to [0,100]; every per-hour score and every window
\* score of the payload lies in [0,100].  The sum is the stated one up to
\* the rounding of the float arithmetic; each row is compared when it has
\* been appended.
C6_FishComposite ==
    /\ Thousandths(FAdd(FAdd(FAdd(FAdd(FAdd(FAdd(FAdd(WEIGHTS.wind, WEIGHTS.clouds),
                                                  WEIGHTS.precip), WEIGHTS.pressure),
                                        WEIGHTS.humidity), WEIGHTS.wave),
                              WEIGHTS.seatemp), WEIGHTS.tide)) = 1000
    /\ FRoundTo(WEIGHTS.wind, 100) = 25 /\ FRoundTo(WEIGHTS.clouds, 100) = 8
    /\ FRoundTo(WEIGHTS.precip, 100) = 8 /\ FRoundTo(WEIGHTS.pressure, 100) = 8
    /\ FRoundTo(WEIGHTS.humidity, 100) = 5 /\ FRoundTo(WEIGHTS.wave, 100) = 20
    /\ FRoundTo(WEIGHTS.seatemp, 100) = 6 /\ FRoundTo(WEIGHTS.tide, 100) = 20
    /\ fpc \in {"rows", "done"} =>
          /\ Len(rows) <= Len(DatedHourly)
          /\ \A i \in 1..Len(rows) : FInRange(rows[i].score, 0, 100)
    /\ (fpc = "rows" /\ rows # <<>>) =>
          LET raw == StatedComposite(DatedHourly[Len(rows)])
          IN HundredThousandths(rows[Len(rows)].score)
                = (IF raw > 10000000 THEN 10000000 ELSE IF raw < 0 THEN 0 ELSE raw)
    /\ \A j \in 1..Len(windows) : 0 <= windows[j].score /\ windows[j].score <= 100

\* a finished run with windows in which the clamp cut one hour that had the
\* bonus, and one hour with the sun at -12 or +6 degrees exactly went without
C6_Witness ==
    /\ fpc = "done"
    /\ windows # <<>>
    /\ Len(rows) = Len(DatedHourly)
    /\ \E i \in 1..Len(rows) :
          /\ StatedComposite(DatedHourly[i]) > 10000000
          /\ SunAlt(DatedHourly[i]) = 0
          /\ rows[i].score = FWhole[100]
    /\ \E i \in 1..Len(rows) :
          /\ SunAlt(DatedHourly[i]) \in {-12, 6}
          /\ FLt(rows[i].score, FWhole[100])
          /\ HundredThousandths(rows[i].score) = StatedComposite(DatedHourly[i])
    /\ \E j \in 1..Len(windows) : windows[j].score > 0

\* ------------------------------------------------------------------------
\* Windows without records
\* ------------------------------------------------------------------------
\* the number of supplied records whose timestamp lies in [lo, hi]
RecordsWithin(lo, hi) ==
    Cardinality({ i \in 1..Len(data) :
        /\ DateAt(data, i) # None
        /\ lo <= DateAt(data, i)
        /\ DateAt(data, i) <= hi })

\* the window w has a night in the list ns
HasNight(ns, w) == \E j \in 1..Len(ns) : ns[j].start = w.start /\ ns[j].end = w.end

\* the windows of the builder that main() has gone through
WindowsDone == IF pc = "done" THEN Len(wins) ELSE widx - 1

\* C11: a window emitted by the builder that contains no hourly record with
\* start <= timestamp <= end has no night in the report, a window that does
\* contain one has its night, and every night of the report covers at least
\* one hourly record.
C11_EmptyWindowsDropped ==
    pc \in {"aggregate", "done"} =>
        /\ \A k \in 1..WindowsDone :
              HasNight(nights_out, wins[k]) <=> RecordsWithin(wins[k].start, wins[k].end) >= 1
        /\ \A j \in 1..Len(nights_out) :
              RecordsWithin(nights_out[j].start, nights_out[j].end) >= 1
        /\ pc = "done" =>
              /\ Len(payload) = Len(nights_out)
              /\ \A k \in 1..Len(wins) :
                    HasNight(payload, wins[k]) <=> RecordsWithin(wins[k].start, wins[k].end) >= 1
              /\ \A j \in 1..Len(payload) :
                    RecordsWithin(payload[j].start, payload[j].end) >= 1

\* a finished report with a night, built from windows of which one had no
\* record inside
C11_Witness ==
    /\ pc = "done"
    /\ payload # <<>>
    /\ Len(payload) < Len(wins)
    /\ \E k \in 1..Len(wins) :
          /\ RecordsWithin(wins[k].start, wins[k].end) = 0
          /\ ~HasNight(payload, wins[k])

\* ------------------------------------------------------------------------
\* Empty input
\* ------------------------------------------------------------------------
\* C12: with no hourly record the astro window builder returns an empty
\* window list and the fishing build_payload returns a payload with an empty
\* windows list; neither raises.
C12_EmptyInput ==
    /\ (pc # "idle" /\ data = <<>>) =>
          /\ pc \in {"sort", "scan", "aggregate", "done"}
          /\ hours = <<>>
          /\ wins = <<>>
          /\ nights_out = <<>>
          /\ payload = <<>>
    /\ (fpc # "idle" /\ hourly = <<>>) =>
          /\ fpc \in {"fetch", "done"}
          /\ rows = <<>>
          /\ windows = <<>>

\* both builds have finished on a forecast without hourly records
C12_Witness ==
    /\ data = <<>>
    /\ hourly = <<>>
    /\ pc = "done"
    /\ fpc = "done"
    /\ wins = <<>>
    /\ windows = <<>>

\* ------------------------------------------------------------------------
\* Dew spread
\* ------------------------------------------------------------------------
\* a field that holds a number
IsNumber(x) == x # None /\ x # Malformed

\* the dew point of a record: field "dew_point", or "dewpoint" without it
DewPointOf(h) ==
    IF IsNumber(h["dew_point"]) THEN h["dew_point"] ELSE h["dewpoint"]

\* C13: for every record with a numeric temperature and a numeric dew point,
\* a dew point of exactly 0 included, dewspread_score returns the spread
\* temperature - dew point and the score clamp(spread / 8 * 100, 0, 100); it
\* returns the neutral (60, None) only when one of the two is missing.
C13_DewSpread ==
    (call.fn = "dewspread_score" /\ call.done) =>
        LET t == call.arg["temperature"]
            dp == DewPointOf(call.arg)
        IN IF IsNumber(t) /\ IsNumber(dp)
           THEN /\ call.ret.spread # FNone
                /\ Tenths(call.ret.spread) = t - dp
                /\ Thousandths(call.ret.s) = Max(0, Min(100000, ((t - dp) * 100000) \div 80))
           ELSE call.ret = [s |-> FInt(60), spread |-> FNone]

\* ------------------------------------------------------------------------
\* Tide phase and tide score
\* ------------------------------------------------------------------------
\* a finished call of score_tide that had a key and a height series
TideScored ==
    /\ call.fn = "score_tide"
    /\ call.done
    /\ call.arg.key
    /\ call.arg.heights # <<>>

\* the two samples around the target time of a call: their height difference
\* dh in cm and their time difference dt_h in hours
CallRate == TideBracket(call.arg.dt_utc, call.arg.heights)

\* the rate of a call, dh / dt_h cm per hour, is above x hundredths of a m/h,
\* resp. below: on the decimal heights of the series
RateAbove(x) == CallRate.dh > x * CallRate.dt_h
RateBelow(x) == CallRate.dh < x * CallRate.dt_h

\* the phase the claim gives the rate of a call
StatedPhase ==
    IF RateAbove(3) THEN "flood" ELSE IF RateBelow(-3) THEN "ebb" ELSE "slack"

\* C14: score_tide classifies the tide as flood when the estimated rate is
\* above 0.03 m/h, as ebb when it is below -0.03 m/h and as slack otherwise:
\* 0.05 m/h is flood, -0.05 m/h is ebb, 0.01 m/h and exactly 0.03 or -0.03
\* m/h are slack.  The rate is the height difference of the two bracketing
\* samples over their time difference in hours.
C14_TidePhase == TideScored => call.ret.phase = StatedPhase

\* the extremes of a call at or after its target time, by position
LaterExtremes ==
    { i \in 1..Len(call.arg.extremes) : call.arg.extremes[i].dt >= call.arg.dt_utc }

\* the timing term of the tide score: 6 for a next High within 2 hours, 10
\* for a next Low within 2 hours, else 0 (thousandths of a point)
StatedTiming ==
    IF LaterExtremes = {} THEN 0
    ELSE LET i == CHOOSE k \in LaterExtremes : \A m \in LaterExtremes : k <= m
             ex == call.arg.extremes[i]
         IN IF ex.dt - call.arg.dt_utc > 2 THEN 0
            ELSE IF ex.type = "High" THEN 6000
            ELSE IF ex.type = "Low" THEN 10000
            ELSE 0

\* base + phase + slack + timing for the rate dh / d cm per hour, in
\* thousandths of a point and times d, so that nothing is divided:
\* |rate| * 300 points is 3000 * |dh| / d thousandths
StatedTideTotal(dh, d) ==
    Min(100000 * d, 40000 * d + Min(60000 * d, 3000 * Abs(dh)))
    + (IF StatedPhase = "flood" THEN 5000 * d ELSE 0)
    + (IF StatedPhase = "slack" THEN -15000 * d ELSE 0)
    + StatedTiming * d

\* C15: with a height series score_tide returns clamp(base + phase + slack +
\* timing, 0, 100), base = min(100, 40 + min(60, |rate| * 300)), phase = +5
\* when flooding, slack = -15 when slack, timing = +6 / +10 for a next High /
\* Low within 2 hours and 0 otherwise; without a series or without a key the
\* tide score is the neutral 60.  The score returned is compared to the
\* thousandth of a point.
C15_TideScore ==
    (call.fn = "score_tide" /\ call.done) =>
        IF TideScored
        THEN CallRate.dt_h * Thousandths(call.ret.score)
                = Max(0, Min(100000 * CallRate.dt_h, StatedTideTotal(CallRate.dh, CallRate.dt_h)))
        ELSE call.ret.score = FInt(60)

\* C15 on the calls the code agrees with: the phase is the stated one and the
\* next extreme, if any, is a High or a Low
C15_OnAgreedCalls ==
    (TideScored /\ call.ret.phase = StatedPhase
     /\ \A i \in LaterExtremes : call.arg.extremes[i].type \in {"High", "Low"})
        => CallRate.dt_h * Thousandths(call.ret.score)
              = Max(0, Min(100000 * CallRate.dt_h, StatedTideTotal(CallRate.dh, CallRate.dt_h)))

\* ------------------------------------------------------------------------
\* Cloud score
\* ------------------------------------------------------------------------
\* the cover of a tier of the called record, the total standing in for a
\* missing tier and 0 for a missing total
TierOrTotal(path) ==
    IF IsNumber(call.arg[path]) THEN call.arg[path]
    ELSE IF IsNumber(call.arg["cloud_cover.total"]) THEN call.arg["cloud_cover.total"]
    ELSE 0

\* at least one of low / middle / high is a number
SomeTier ==
    \E path \in {"cloud_cover.low", "cloud_cover.middle", "cloud_cover.high"} :
        IsNumber(call.arg[path])

\* 0.6 * low + 0.3 * mid + 0.1 * high, in thousandths
StatedCloudValue ==
    600 * TierOrTotal("cloud_cover.low") + 300 * TierOrTotal("cloud_cover.middle")
    + 100 * TierOrTotal("cloud_cover.high")

\* C16 as stated: with a tier present the score is max(0, 100 - weighted
\* cover); with the total alone it is 100 - total; with nothing it is 50.
C16_AsStated ==
    (call.fn = "clouds_score" /\ call.done) =>
        Thousandths(call.ret) =
            (IF SomeTier THEN Max(0, 100000 - StatedCloudValue)
             ELSE IF IsNumber(call.arg["cloud_cover.total"])
                  THEN 100000 - 1000 * call.arg["cloud_cover.total"]
             ELSE 50000)

\* C16: with a tier present the cloud score is max(0, 100 - (0.6 low + 0.3
\* mid + 0.1 high)), a missing tier replaced by the total if present and by
\* 0 otherwise; with the total alone it is max(0, 100 - total); with nothing
\* present it is the neutral 50.
C16_CloudScore ==
    (call.fn = "clouds_score" /\ call.done) =>
        Thousandths(call.ret) =
            (IF SomeTier THEN Max(0, 100000 - StatedCloudValue)
             ELSE IF IsNumber(call.arg["cloud_cover.total"])
                  THEN Max(0, 100000 - 1000 * call.arg["cloud_cover.total"])
             ELSE 50000)

\* a record with the total alone, above 100 percent, scored 0; the floor is
\* what the statement leaves out
C16_Witness ==
    /\ call.fn = "clouds_score"
    /\ call.done
    /\ ~SomeTier
    /\ call.arg["cloud_cover.total"] = 130
    /\ call.ret = FZero

\* ------------------------------------------------------------------------
\* Fog risk
\* ------------------------------------------------------------------------
\* the risk of one input in hundredths: r1 up to the limit l1 (in tenths),
\* r2 up to l2, r3 up to l3, 0 above and for a missing input; with strict
\* limits the value at a limit belongs to the next tier
TierRisk(x, l1, r1, l2, r2, l3, r3, strict) ==
    IF x = None THEN 0
    ELSE IF x < l1 \/ (~strict /\ x = l1) THEN r1
    ELSE IF x < l2 \/ (~strict /\ x = l2) THEN r2
    ELSE IF x < l3 \/ (~strict /\ x = l3) THEN r3
    ELSE 0

\* C17: fog_probability returns round(100 * min(1, d + w + v)): d is 0.6 /
\* 0.35 / 0.15 / 0 for a dew spread <= 1 / <= 3 / <= 5 / above, w is 0.25 /
\* 0.10 / 0 for wind <= 1.5 / <= 3 / above, v is 0.25 / 0.10 / 0 for
\* visibility < 5 km / < 10 km / otherwise; a missing input adds 0 and the
\* result is an integer in [0,100].
C17_FogRisk ==
    (call.fn = "fog_probability" /\ call.done) =>
        LET d == TierRisk(call.arg["spread_C"], 10, 60, 30, 35, 50, 15, FALSE)
            w == TierRisk(call.arg["wind_ms"], 15, 25, 30, 10, 30, 10, FALSE)
            v == TierRisk(call.arg["vis_km"], 50, 25, 100, 10, 100, 10, TRUE)
        IN /\ call.ret = (IF d + w + v > 100 THEN 100 ELSE d + w + v)
           /\ call.ret \in 0..100

\* the worst case: spread <= 1, wind <= 1.5, visibility < 5 km give 1.10,
\* returned as 100
C17_Witness ==
    /\ call.fn = "fog_probability"
    /\ call.done
    /\ call.arg["spread_C"] = 10
    /\ call.arg["wind_ms"] = 15
    /\ call.arg["vis_km"] = 49
    /\ call.ret = 100

\* ------------------------------------------------------------------------
\* Configuration validation
\* ------------------------------------------------------------------------
\* the weights sum to 1.0
WeightsValid ==
    FRoundTo(conf.W_CLOUDS, 100) + FRoundTo(conf.W_VIS, 100) + FRoundTo(conf.W_DEWSPREAD, 100)
    + FRoundTo(conf.W_WIND, 100) + FRoundTo(conf.W_PRECIP, 100) + FRoundTo(conf.W_BRIGHT, 100)
    = 100

\* C19: a configuration whose weights do not sum to 1.0 is rejected before
\* any hourly record is processed: under it the run scans no record, scores
\* no hour and produces no report.
C19_EagerValidation ==
    ~WeightsValid =>
        /\ idx = 1
        /\ per_hour = <<>>
        /\ nights_out = <<>>
        /\ pc # "done"

\* ------------------------------------------------------------------------
\* Report ordering
\* ------------------------------------------------------------------------
\* C20: the nights of the report payload are in ascending order of window
\* start, whatever the order the hourly records came in, they are the nights
\* that were aggregated, and the card has one row per night in that same
\* order.
C20_ReportOrder ==
    pc = "done" =>
        /\ \A i \in 1..Len(payload) : \A j \in 1..Len(payload) :
              i < j => payload[i].start < payload[j].start
        /\ Len(payload) = Len(nights_out)
        /\ \A k \in 1..Len(nights_out) : \E i \in 1..Len(payload) : payload[i] = nights_out[k]
        /\ Len(render_html_card(payload)) = Len(payload)
        /\ \A i \in 1..Len(payload) :
              /\ render_html_card(payload)[i].start_local = payload[i].start % 24
              /\ render_html_card(payload)[i].end_local = payload[i].end % 24
              /\ render_html_card(payload)[i].score = RoundHalfEven(payload[i].score, 10)
              /\ render_html_card(payload)[i].date_label = payload[i].label
              /\ render_html_card(payload)[i].cls = payload[i].class

\* a report of two nights, the later one with the higher score, from records
\* that were not supplied in chronological order
C20_Witness ==
    /\ pc = "done"
    /\ Len(payload) = 2
    /\ payload[1].start < payload[2].start
    /\ payload[1].score < payload[2].score
    /\ \E i \in 1..(Len(data) - 1) : DateAt(data, i) > DateAt(data, i + 1)
    /\ Len(render_html_card(payload)) = 2

\* ------------------------------------------------------------------------
\* Scan state
\* ------------------------------------------------------------------------
\* the number of records the loop has processed
Processed == idx - 1

\* after a timestamped record: in_dark tells whether it qualifies, start_dt
\* is set exactly in a run and is then the timestamp of the run's first record
ScanStateOK ==
    (pc \in {"scan", "aggregate", "done"} /\ Processed >= 1
        /\ DateAt(hours, Processed) # None) =>
        /\ in_dark = IsDark(hours[Processed])
        /\ (start_dt # None) = in_dark
        /\ in_dark => start_dt = DateAt(hours, RunStart(hours, Processed))

\* a step that changes wins appends one window, and is either the iteration
\* of a non-qualifying record met inside a run or the flush after the loop
AppendOnlyOnExitOrFlush ==
    wins' # wins =>
        /\ Len(wins') = Len(wins) + 1
        /\ SubSeq(wins', 1, Len(wins)) = wins
        /\ pc = "scan"
        /\ \/ /\ idx <= Len(hours)
              /\ in_dark /\ ~IsDark(hours[idx])
              /\ ~in_dark' /\ start_dt' = None
           \/ /\ idx > Len(hours)
              /\ in_dark
              /\ pc' = "aggregate"

\* C21: after each timestamped record the in_dark flag is true exactly when
\* that record qualifies, start_dt is set exactly when in_dark is true and is
\* then the timestamp of the first record of the current maximal qualifying
\* run; a window is appended only when a run is left or at the final flush.
C21_ScanState == []ScanStateOK /\ [][AppendOnlyOnExitOrFlush]_vars

\* the loop is inside the second record or later of a run that started after
\* the first record, with a window of an earlier run already appended
C21_Witness ==
    /\ pc = "scan"
    /\ Processed >= 2
    /\ in_dark
    /\ RunStart(hours, Processed) > 1
    /\ RunStart(hours, Processed) < Processed
    /\ start_dt = DateAt(hours, RunStart(hours, Processed))
    /\ Len(wins) >= 1

\* ------------------------------------------------------------------------
\* Window well-formedness
\* ------------------------------------------------------------------------
\* window w is the buffered interval of run r and lies inside the run's raw
\* span, from its first to its last qualifying sample
InsideRun(w, r) ==
    /\ w.start = DateAt(hours, r[1]) + SUNSET_BUFFER_H
    /\ w.end = DateAt(hours, r[2]) - SUNRISE_BUFFER_H
    /\ DateAt(hours, r[1]) <= w.start
    /\ w.end <= DateAt(hours, r[2])

\* C22: with non-negative buffers, the windows the builder returns are in
\* ascending order, each has start < end and lies inside the raw span of its
\* run, and the end of a window is strictly before the start of the next.
C22_WellFormed ==
    (ScanOver /\ AllDated(hours) /\ SUNSET_BUFFER_H >= 0 /\ SUNRISE_BUFFER_H >= 0) =>
        /\ \A k \in 1..Len(wins) :
              /\ wins[k].start < wins[k].end
              /\ \E r \in QualRuns(hours) : InsideRun(wins[k], r)
        /\ \A k \in 1..(Len(wins) - 1) :
              /\ wins[k].start < wins[k + 1].start
              /\ wins[k].end < wins[k + 1].start

\* two windows were returned under buffers of zero, the first ending at the
\* last sample of its run and the second starting at the first of its run
C22_Witness ==
    /\ ScanOver
    /\ AllDated(hours)
    /\ SUNSET_BUFFER_H = 0 /\ SUNRISE_BUFFER_H = 0
    /\ Len(wins) = 2
    /\ \E r \in QualRuns(hours) : wins[1].end = DateAt(hours, r[2])
    /\ \E r \in QualRuns(hours) : wins[2].start = DateAt(hours, r[1])
    /\ wins[1].end < wins[2].start

\* ------------------------------------------------------------------------
\* Score and class of a reported window
\* ------------------------------------------------------------------------
\* the class the 75/60 thresholds give to a displayed fishing score, a
\* whole number of points
StatedFishClass(score) ==
    IF score >= 75 THEN "GOOD" ELSE IF score >= 60 THEN "FAIR" ELSE "POOR"

\* the astro nights of a finished report carry the class of their score
NightsConsistent ==
    pc = "done" =>
        \A i \in 1..Len(payload) : payload[i].class = classify(payload[i].score)

\* the fishing windows of a finished report carry the class of their score
FishWindowsConsistent ==
    fpc = "done" =>
        \A j \in 1..Len(windows) : windows[j].cls = StatedFishClass(windows[j].score)

\* C23: in every window of a report payload, astro night or fishing window,
\* the class label is the classification under the 75/60 thresholds of the
\* score shown in that window.
C23_ScoreClassConsistent == NightsConsistent /\ FishWindowsConsistent

\* ------------------------------------------------------------------------
\* Windows with a single record
\* ------------------------------------------------------------------------
\* the class of a score in tenths under the thresholds 75 and 60
StatedNightClass(score) ==
    IF score >= 750 THEN "GREAT" ELSE IF score >= 600 THEN "OK" ELSE "POOR"

\* the night n is the report of the one record h: the composite of h to the
\* nearest tenth with its class, the three lowest components of h in
\* ascending order, each to the nearest integer, and no best two hours
NightOfOne(n, h) ==
    LET q == hour_quality(h)
    IN /\ IsNearest(n.score, q.score, 10)
       /\ n.class = StatedNightClass(n.score)
       /\ Len(n.worst) = 3
       /\ Cardinality({ n.worst[j].name : j \in 1..3 }) = 3
       /\ \A j \in 1..3 :
             /\ n.worst[j].name \in QualityComps
             /\ IsNearest(n.worst[j].value, q.comps[n.worst[j].name], 1)
       /\ \A j \in 1..2 : FLe(q.comps[n.worst[j].name], q.comps[n.worst[j + 1].name])
       /\ \A k \in QualityComps \ { n.worst[j].name : j \in 1..3 } :
             FLe(q.comps[n.worst[3].name], q.comps[k])
       /\ n.best2h = NoBest2h

\* C24: a window holding exactly one hourly record has its night in the
\* report, with the score, class and limiting factors of that one record and
\* no best two hours; a night has a best two hours exactly when its window
\* holds at least two hourly records, and the card shows a dash otherwise.
C24_SingleRecordWindow ==
    pc = "done" =>
        /\ \A k \in 1..Len(wins) :
              RecordsWithin(wins[k].start, wins[k].end) = 1 =>
                 \E j \in 1..Len(payload) :
                    /\ payload[j].start = wins[k].start
                    /\ payload[j].end = wins[k].end
                    /\ NightOfOne(payload[j], HoursIn(wins[k], data)[1])
        /\ \A j \in 1..Len(payload) :
              /\ (payload[j].best2h # NoBest2h) <=>
                    (RecordsWithin(payload[j].start, payload[j].end) >= 2)
              /\ (render_html_card(payload)[j].best2h = "-") <=>
                    (RecordsWithin(payload[j].start, payload[j].end) = 1)

\* a report with the night of a one-record window whose dew spread scores
\* 7.499999999999996: the factor listed first is dewspread:7, the night has
\* no best two hours and its card shows a dash
C24_Witness ==
    /\ pc = "done"
    /\ \E j \in 1..Len(payload) :
          /\ RecordsWithin(payload[j].start, payload[j].end) = 1
          /\ payload[j].best2h = NoBest2h
          /\ payload[j].worst[1] = [name |-> "dewspread", value |-> 7]
          /\ render_html_card(payload)[j].best2h = "-"

\* a report with the night of a one-record window classed GREAT
C24_WitnessGreat ==
    /\ pc = "done"
    /\ \E j \in 1..Len(payload) :
          /\ RecordsWithin(payload[j].start, payload[j].end) = 1
          /\ payload[j].best2h = NoBest2h
          /\ payload[j].class = "GREAT"

\* a report whose night of several records names its best two hours
C24_WitnessPair ==
    /\ pc = "done"
    /\ \E j \in 1..Len(payload) :
          /\ RecordsWithin(payload[j].start, payload[j].end) >= 2
          /\ payload[j].best2h # NoBest2h
          /\ render_html_card(payload)[j].best2h = "best"


====
